---------------------------- MODULE Spec2Model ----------------------------
(***************************************************************************)
(* CSS Art Generator (css-art-gen): the /api/generate endpoint with its    *)
(* in-memory counter, the file-backed counter, the seeded value stream,    *)
(* the parameter synthesizer, the mood resolver and the template renderer. *)
(*                                                                         *)
(* Strings whose characters matter (prompts, seeds, IP addresses) are      *)
(* sequences of character codes; timestamps are milliseconds since the     *)
(* process started (Date.now() and the ISO string of new Date() carry the  *)
(* same millisecond value).                                                *)
(***************************************************************************)
EXTENDS Integers, Sequences, FiniteSets, TLC

VARIABLES
    \* ---- /api/generate with lib/counter-cloud.ts ----
    now,                \* the wall clock, ms
    counter,            \* counter-cloud.ts: let counter
    registry,           \* counter-cloud.ts: let registry
    recentGenerations,  \* counter-cloud.ts: const recentGenerations (ipHash -> timestamps)
    pending,            \* POST handlers suspended at `await request.json()`, per ip
    resp,               \* the response the last step sent (NoResp if none)
    accepted,           \* number of POSTs answered with success so far
    rejected,           \* number of POSTs answered with an error so far
    \* ---- lib/counter.ts (the file-backed counter) ----
    counterFile,        \* data/generation-counter.json
    registryFile,       \* data/generation-registry.json
    calls,              \* the incrementCounter calls: position and locals
    \* ---- lib/css-generator.ts ----
    renderParams,       \* the ArtworkParameters record rendered
    css,                \* what each generateCSS(renderParams) call returned
    html,               \* what each generateHTML(renderParams, css) call returned
    \* ---- lib/randomness.ts, lib/parameter-generator.ts ----
    rngSeed,            \* the seed the SeededRandom instances are built from
    rngState,           \* this.seed of each instance
    rngReturned,        \* what next() returned so far in each instance, times 0x7fffffff
    rngCall,            \* the last call of a method of an instance, with its result
    params,             \* what generateParameters(rngSeed, mood) returned last
    \* ---- app/page.tsx ----
    pagePrompt,         \* page.tsx: const [prompt, setPrompt]
    selectedPreset,     \* page.tsx: const [selectedPreset, setSelectedPreset]
    isGenerating,       \* page.tsx: const [isGenerating, setIsGenerating]
    pageError,          \* page.tsx: const [error, setError]
    handleCall,         \* the running handleGenerate: the prompt and the preset
                        \* of its render, and its `const mood`
    \* ---- lib/security.ts ----
    validateArg,        \* the prompt validatePrompt is called with
    validateRet,        \* what the call returned (NoValidation before it returns)
    \* ---- lib/parameter-generator.ts validateParameters ----
    checkArg,           \* the record validateParameters is called with
    checkRet,           \* <<what the call returned>> (<<>> before it returns)
    \* ---- provenance system: ProvenanceRecord, UniquenessVerifier ----
    provNow,            \* the wall clock of the provenance system, ms
    provenances,        \* the ProvenanceRecord objects built so far
    verifierRegistry,   \* UniquenessVerifier: this.registry (a Map, in insertion order)
    verifierCall,       \* the last call of a method of the verifier, with its outcome
    \* ---- random-generation-system.js: FairLaunchDrawing ----
    drawings,           \* FairLaunchDrawing: this.drawings (drawingId -> drawing)
    conducts,           \* the conductDrawing calls: position, locals and outcome
    randomSerial,       \* the serial number of the last result Random.org returned
    drawCall,           \* the last createDrawing or addEntry call, with its outcome
    \* ---- lib/security.ts sanitizePrompt ----
    sanitizeArg,        \* the prompt sanitizePrompt is called with
    sanitizeRet,        \* <<what the call returned>> (<<>> before it returns)
    \* ---- app/page.tsx: the artwork panel ----
    shownProvenance,    \* page.tsx: const [provenance, setProvenance]
    generationNumber,   \* page.tsx: const [generationNumber, setGenerationNumber] (0 is null)
    generatedHTML       \* page.tsx: const [generatedHTML, setGeneratedHTML]

apiVars == <<now, counter, registry, recentGenerations, pending, resp, accepted, rejected>>
fileVars == <<counterFile, registryFile, calls>>
renderVars == <<renderParams, css, html>>
randomVars == <<rngSeed, rngState, rngReturned, rngCall, params>>
pageVars == <<pagePrompt, selectedPreset, isGenerating, pageError, handleCall>>
validateVars == <<validateArg, validateRet>>
checkVars == <<checkArg, checkRet>>
verifierVars == <<provNow, provenances, verifierRegistry, verifierCall>>
drawVars == <<drawings, conducts, randomSerial, drawCall>>
sanitizeVars == <<sanitizeArg, sanitizeRet>>
shownVars == <<shownProvenance, generationNumber, generatedHTML>>

vars == <<apiVars, fileVars, renderVars, randomVars, pageVars, validateVars, checkVars, verifierVars, drawVars, sanitizeVars, shownVars>>

-----------------------------------------------------------------------------
(* Bounds of the model *)

MaxAccepted == 11       \* POSTs answered with success in one run
MaxRejected == 2        \* POSTs answered with an error in one run
MaxPending == 1         \* POST handlers suspended at the same time
MaxTicks == 2           \* clock advances in one run
MaxCalls == 2           \* calls of the file-backed incrementCounter in one run
MaxTendrils == 2        \* tendrils of one hair layer in a rendered record
RandomSteps == 2        \* Math.random() returns one of 0/RandomSteps .. (RandomSteps-1)/RandomSteps
MaxDraws == 3           \* next() calls on one SeededRandom instance
MaxSubmits == 2         \* POSTs of the page answered in one run
MaxPromptChars == 4     \* characters of the short prompts validatePrompt is called with
MaxDayAccepted == 51    \* POSTs answered with success in one run of a day
MaxDayTicks == 5        \* clock advances in one run of a day
MaxProvTicks == 2       \* clock advances of the provenance system in one run
MaxProvenances == 2     \* ProvenanceRecord objects built in one run
MaxDrawings == 1        \* drawings created in one run
MaxEntries == 3         \* entries of a drawing in one run
MaxConducts == 2        \* conductDrawing calls in one run
MaxSanitizeChars == 4   \* characters of the short prompts sanitizePrompt is called with
MaxShown == 2           \* generation numbers the endpoint answers the page with

-----------------------------------------------------------------------------
(* Characters and strings *)

Range(s) == { s[i] : i \in 1..Len(s) }

IsUpper(c) == c >= 65 /\ c <= 90
IsAlpha(c) == IsUpper(c) \/ (c >= 97 /\ c <= 122)
\* \s of a JavaScript regular expression and of String.trim, on ASCII
IsSpace(c) == c \in {9, 10, 11, 12, 13, 32}

LowerChar(c) == IF IsUpper(c) THEN c + 32 ELSE c
ToLowerCase(s) == [i \in 1..Len(s) |-> LowerChar(s[i])]

\* String.prototype.includes
Includes(s, needle) ==
    \E i \in 0..(Len(s) - Len(needle)) :
        \A j \in 1..Len(needle) : s[i + j] = needle[j]

\* String.prototype.trim
Trim(s) ==
    LET keep == { i \in 1..Len(s) : ~IsSpace(s[i]) }
    IN  IF keep = {} THEN <<>>
        ELSE LET lo == CHOOSE i \in keep : \A k \in 1..(i - 1) : IsSpace(s[k])
                 hi == CHOOSE i \in keep : \A k \in (i + 1)..Len(s) : IsSpace(s[k])
             IN  SubSeq(s, lo, hi)

\* String.prototype.repeat
Repeat(s, n) == [i \in 1..(n * Len(s)) |-> s[((i - 1) % Len(s)) + 1]]

-----------------------------------------------------------------------------
(* The 32-bit rolling hash shared by hashIP, hashString, createFingerprint *)

Two16 == 256 * 256
MaxInt32 == 2147483647      \* 0x7fffffff
MinInt32 == (-MaxInt32) - 1

\* ToInt32(31 * hash + char): `((hash << 5) - hash) + char` then `hash & hash`
HashStepFrom(u, sign, char) ==
    LET uhi == (u \div Two16) + sign
        ulo == u % Two16
        lo  == ulo * 31 + char
        hi  == (uhi * 31 + (lo \div Two16)) % Two16
        l   == lo % Two16
    IN  IF hi >= 32768 THEN (((hi - 32768) * Two16 + l) - MaxInt32) - 1
        ELSE hi * Two16 + l

HashStep(hash, char) ==
    IF hash >= 0 THEN HashStepFrom(hash, 0, char)
    ELSE HashStepFrom((hash + MaxInt32) + 1, 32768, char)

\* `hash` after the rounds lo..hi of the loop over s
RECURSIVE HashFrom(_, _, _, _)
HashFrom(hash, s, lo, hi) ==
    IF lo > hi THEN hash
    ELSE IF lo = hi THEN HashStep(hash, s[lo])
    ELSE LET mid == (lo + hi) \div 2
         IN  CHOOSE h \in { HashFrom(left, s, mid + 1, hi) :
                               left \in {HashFrom(hash, s, lo, mid)} } : TRUE

\* the signed 32-bit value of `hash` when the loop ends
Hash32(s) == HashFrom(0, s, 1, Len(s))

HexDigit == <<"0", "1", "2", "3", "4", "5", "6", "7",
              "8", "9", "a", "b", "c", "d", "e", "f">>

\* Number.prototype.toString(16) of a non-negative integer
RECURSIVE ToString16(_)
ToString16(n) ==
    IF n < 16 THEN HexDigit[n + 1]
    ELSE ToString16(n \div 16) \o HexDigit[(n % 16) + 1]

\* Math.abs(hash).toString(16); Math.abs(-2^31) is 2^31, "80000000"
AbsToString16(hash) ==
    IF hash = MinInt32 THEN "80000000"
    ELSE ToString16(IF hash < 0 THEN -hash ELSE hash)

\* String.prototype.padStart(width, '0')
RECURSIVE PadStart0(_, _)
PadStart0(s, width) ==
    IF Len(s) >= width THEN s ELSE PadStart0("0" \o s, width)

\* counter-cloud.ts hashIP
hashIP(ip) == AbsToString16(Hash32(ip))

\* randomness.ts createFingerprint, security.ts secureHash
createFingerprint(seed) == PadStart0(AbsToString16(Hash32(seed)), 16)

-----------------------------------------------------------------------------
(* lib/security.ts: validatePrompt *)

\* /(.)\1{10,}/i : a character other than a line terminator, then ten more
\* of it, letter case ignored
HasRepeatedRun(p) ==
    \E i \in 1..(Len(p) - 10) :
        /\ p[i] \notin {10, 13}
        /\ \A j \in 1..10 : LowerChar(p[i + j]) = LowerChar(p[i])

StrHttp == <<104, 116, 116, 112, 58, 47, 47>>                      \* "http://"
StrHttps == <<104, 116, 116, 112, 115, 58, 47, 47>>                \* "https://"
StrScript == <<60, 115, 99, 114, 105, 112, 116>>                   \* "<script"
StrJavascript == <<106, 97, 118, 97, 115, 99, 114, 105, 112, 116, 58>> \* "javascript:"
StrOnclick == <<111, 110, 99, 108, 105, 99, 107>>                  \* "onclick"
StrOnerror == <<111, 110, 101, 114, 114, 111, 114>>                \* "onerror"
StrEval == <<101, 118, 97, 108, 40>>                               \* "eval("

spamPatterns(p) ==
    LET l == ToLowerCase(p)
    IN  \/ HasRepeatedRun(p)
        \/ Includes(l, StrHttp) \/ Includes(l, StrHttps)
        \/ Includes(l, StrScript)
        \/ Includes(l, StrJavascript)
        \/ Includes(l, StrOnclick)
        \/ Includes(l, StrOnerror)
        \/ Includes(l, StrEval)

MinPromptLength == 3
MaxPromptLength == 500

\* the reason strings of validatePrompt
ReasonEmpty == "Prompt cannot be empty"
ReasonShort == "Prompt too short (minimum 3 characters)"
ReasonLong == "Prompt too long (maximum 500 characters)"
ReasonSuspicious == "Prompt contains suspicious content"
ReasonMeaningless == "Prompt must contain meaningful text"

validatePrompt(prompt) ==
    LET alphaCount  == Cardinality({ i \in 1..Len(prompt) : IsAlpha(prompt[i]) })
        totalLength == Len(Trim(prompt))
    IN  IF Len(prompt) = 0 \/ totalLength = 0
            THEN [valid |-> FALSE, reason |-> ReasonEmpty]
        ELSE IF Len(prompt) < MinPromptLength
            THEN [valid |-> FALSE, reason |-> ReasonShort]
        ELSE IF Len(prompt) > MaxPromptLength
            THEN [valid |-> FALSE, reason |-> ReasonLong]
        ELSE IF spamPatterns(prompt)
            THEN [valid |-> FALSE, reason |-> ReasonSuspicious]
        \* alphaCount / totalLength < 0.3
        ELSE IF alphaCount * 10 < 3 * totalLength
            THEN [valid |-> FALSE, reason |-> ReasonMeaningless]
        ELSE [valid |-> TRUE, reason |-> ""]

\* the members of a set of positions, in increasing order
Ordered(positions) ==
    [k \in 1..Cardinality(positions) |->
        CHOOSE i \in positions : Cardinality({ j \in positions : j <= i }) = k]

\* String.prototype.replace(/[<>]/g, '')
RemoveAngleBrackets(s) == SelectSeq(s, LAMBDA c : c \notin {60, 62})

\* String.prototype.replace(/\s+/g, ' ')
NormalizeWhitespace(s) ==
    LET first == { i \in 1..Len(s) : ~IsSpace(s[i]) \/ i = 1 \/ ~IsSpace(s[i - 1]) }
        at == Ordered(first)
    IN  [k \in 1..Cardinality(first) |-> IF IsSpace(s[at[k]]) THEN 32 ELSE s[at[k]]]

\* security.ts sanitizePrompt
sanitizePrompt(prompt) ==
    LET normalized == NormalizeWhitespace(RemoveAngleBrackets(Trim(prompt)))
    IN  SubSeq(normalized, 1, IF Len(normalized) < MaxPromptLength
                              THEN Len(normalized) ELSE MaxPromptLength)

\* the prompts sanitizePrompt is called with: every string of at most
\* MaxSanitizeChars characters out of "a", " ", tab, "<" and ">", and 166 times
\* "ab " followed by "a", "a b" and "abc": 499 characters, 501 characters with
\* a space at position 500, and 501 characters with a letter there
SanitizeChars == {97, 32, 9, 60, 62}
SanitizeShortPrompts == UNION { [1..n -> SanitizeChars] : n \in 0..MaxSanitizeChars }
SanitizeLongPrompts ==
    { Repeat(<<97, 98, 32>>, 166) \o tail :
        tail \in {<<97>>, <<97, 32, 98>>, <<97, 98, 99>>} }

\* sanitizePrompt(sanitizeArg) is called and returns
SanitizePrompt ==
    /\ sanitizeRet = <<>>
    /\ sanitizeRet' = <<sanitizePrompt(sanitizeArg)>>
    /\ UNCHANGED sanitizeArg

SanitizeInit ==
    /\ sanitizeArg \in SanitizeShortPrompts \cup SanitizeLongPrompts
    /\ sanitizeRet = <<>>

\* sanitizePrompt is not called
SanitizeIdle ==
    /\ sanitizeArg = <<>>
    /\ sanitizeRet = <<>>

\* the prompts validatePrompt is called with: every string of at most
\* MaxPromptChars characters out of "a", "1" and " ", and 166 times "ab "
\* followed by "a", "ab" and "abc": 499, 500 and 501 characters
PromptChars == {97, 49, 32}
ShortPrompts == UNION { [1..n -> PromptChars] : n \in 0..MaxPromptChars }
LongPrompts ==
    { Repeat(<<97, 98, 32>>, 166) \o tail : tail \in {<<97>>, <<97, 98>>, <<97, 98, 99>>} }

NoValidation == [valid |-> FALSE, reason |-> "not returned"]

\* validatePrompt(validateArg) is called and returns
ValidatePrompt ==
    /\ validateRet = NoValidation
    /\ validateRet' = validatePrompt(validateArg)
    /\ UNCHANGED validateArg

ValidateInit ==
    /\ validateArg \in ShortPrompts \cup LongPrompts
    /\ validateRet = NoValidation

\* validatePrompt is not called
ValidateIdle ==
    /\ validateArg = <<>>
    /\ validateRet = NoValidation

-----------------------------------------------------------------------------
(* lib/counter-cloud.ts and app/api/generate/route.ts *)

TickMs == 40 * 60 * 1000        \* the clock advances in steps of 40 minutes
HourMs == 60 * 60 * 1000        \* counter-cloud.ts: 60 * 60 * 1000
RateLimit == 10                 \* counter-cloud.ts: timestamps.length < 10
RegistryCap == 1000             \* counter-cloud.ts: registry.length > 1000
RetryAfter == 3600              \* route.ts: retryAfter: 3600

\* the callers: the value of the x-forwarded-for header
Ips == {"10.0.0.1"}
IpChars == [ip \in Ips |-> <<49, 48, 46, 48, 46, 48, 46, 49>>]
\* hashIP(ip), tabulated for the callers
IpHashOf == [ip \in Ips |-> hashIP(IpChars[ip])]
IpHashes == { IpHashOf[ip] : ip \in Ips }

PromptValid == <<97, 32, 99, 97, 116>>                       \* "a cat"
PromptScript == <<60, 115, 99, 114, 105, 112, 116, 62>>      \* "<script>"
PromptBlank == <<32, 32, 32>>      \* "   "
PromptOneWord == <<112, 111, 114, 116, 114, 97, 105, 116>>      \* "portrait"
PromptShort == <<97, 98>>      \* "ab"
PromptDigits == <<49, 50, 51, 52, 32, 53, 54, 55, 56, 32, 97>>      \* "1234 5678 a"
PromptLong == Repeat(<<97, 98, 32>>, 167)      \* 167 times "ab ": 501 characters
BodyPrompts ==
    {PromptValid, PromptScript, PromptBlank, PromptOneWord, PromptShort,
     PromptDigits, PromptLong}
\* validatePrompt(prompt), tabulated for the prompts of the request bodies
ValidationOf == [p \in BodyPrompts |-> validatePrompt(p)]
\* route.ts POST: const validation = validatePrompt(prompt)
Validation(prompt) ==
    IF prompt \in BodyPrompts THEN ValidationOf[prompt] ELSE validatePrompt(prompt)

BodyFingerprint == createFingerprint(<<115, 101, 101, 100>>)     \* of "seed"
BodyPromptHash == createFingerprint(PromptValid)

\* the parsed request bodies; an absent field is the empty string (falsy)
BodyOk == [fingerprint |-> BodyFingerprint, promptHash |-> BodyPromptHash,
           prompt |-> PromptValid]
BodyMissing == [fingerprint |-> "", promptHash |-> BodyPromptHash,
                prompt |-> PromptValid]
BodyInvalid == [fingerprint |-> BodyFingerprint, promptHash |-> BodyPromptHash,
                prompt |-> PromptScript]
Bodies ==
    {BodyOk, BodyMissing, BodyInvalid}
        \cup { [BodyOk EXCEPT !.prompt = p] : p \in BodyPrompts }
        \cup { [BodyOk EXCEPT !.prompt = <<>>] }

NoResp == [kind |-> "none", status |-> 0, error |-> "", message |-> "",
           retryAfter |-> 0, generationNumber |-> 0, totalGenerated |-> 0,
           lastGeneration |-> 0, startedAt |-> 0]
\* an error response that carries no error and no message
JsonErrorSilent(status, error, message, retryAfter) ==
    [NoResp EXCEPT !.kind = "POST", !.status = status, !.retryAfter = retryAfter]

JsonError(status, error, message, retryAfter) ==
    [NoResp EXCEPT !.kind = "POST", !.status = status, !.error = error,
                   !.message = message, !.retryAfter = retryAfter]

\* counter-cloud.ts checkRateLimit: `timestamps` after the filter
RateLimitTimestamps(ip) ==
    LET oneHourAgo == now - HourMs
    IN  SelectSeq(recentGenerations[IpHashOf[ip]], LAMBDA ts : ts > oneHourAgo)

\* counter-cloud.ts checkRateLimit: the value returned
checkRateLimit(ip) == Len(RateLimitTimestamps(ip)) < RateLimit

\* counter-cloud.ts checkRateLimit: recentGenerations.set(ipHash, [...timestamps, now])
checkRateLimitSet(ip) ==
    [recentGenerations EXCEPT ![IpHashOf[ip]] = Append(RateLimitTimestamps(ip), now)]

\* a counter that is written back without the increment
NewNumberNoIncrement == counter.totalGenerated

\* counter-cloud.ts incrementCounter
NewNumber == counter.totalGenerated + 1

incrementCounter ==
    [counter EXCEPT !.totalGenerated = NewNumber, !.lastGeneration = now]

\* a registration that pushes the record twice
incrementCounterRegistryTwice(fingerprint, promptHash, ip) ==
    LET record == [generationNumber |-> NewNumber,
                   fingerprint |-> fingerprint,
                   promptHash |-> promptHash,
                   timestamp |-> now,
                   ipHash |-> IpHashOf[ip]]
    IN  Append(Append(registry, record), record)

\* counter-cloud.ts incrementCounter: registry.push(record); registry.shift()
incrementCounterRegistry(fingerprint, promptHash, ip) ==
    LET record == [generationNumber |-> NewNumber,
                   fingerprint |-> fingerprint,
                   promptHash |-> promptHash,
                   timestamp |-> now,
                   ipHash |-> IpHashOf[ip]]
        pushed == Append(registry, record)
    IN  IF Len(pushed) > RegistryCap THEN Tail(pushed) ELSE pushed

\* route.ts POST, up to `await request.json()`: the rate limit check
PostCheck(ip) ==
    /\ recentGenerations' = checkRateLimitSet(ip)
    /\ IF checkRateLimit(ip)
       THEN /\ pending[ip] < MaxPending
            /\ pending' = [pending EXCEPT ![ip] = @ + 1]
            /\ resp' = NoResp
            /\ UNCHANGED rejected
       ELSE /\ rejected < MaxRejected
            /\ rejected' = rejected + 1
            /\ resp' = JsonError(429, "Rate limit exceeded",
                   "Maximum 10 generations per hour. Please try again later.",
                   RetryAfter)
            /\ UNCHANGED pending
    /\ UNCHANGED <<now, counter, registry, accepted>>

\* route.ts POST, from the parsed body to the response
PostBody(ip, body) ==
    /\ pending[ip] > 0
    /\ pending' = [pending EXCEPT ![ip] = @ - 1]
    /\ IF body.fingerprint = "" \/ body.promptHash = "" \/ Len(body.prompt) = 0
       THEN /\ rejected < MaxRejected
            /\ rejected' = rejected + 1
            /\ resp' = JsonError(400, "Missing required fields", "", 0)
            /\ UNCHANGED <<counter, registry, accepted>>
       ELSE IF ~Validation(body.prompt).valid
       THEN /\ rejected < MaxRejected
            /\ rejected' = rejected + 1
            /\ resp' = JsonError(400, "Invalid prompt",
                                 Validation(body.prompt).reason, 0)
            /\ UNCHANGED <<counter, registry, accepted>>
       ELSE /\ accepted < MaxAccepted
            /\ accepted' = accepted + 1
            /\ counter' = incrementCounter
            /\ registry' = incrementCounterRegistry(body.fingerprint, body.promptHash, ip)
            /\ resp' = [NoResp EXCEPT !.kind = "POST", !.status = 200,
                                      !.generationNumber = NewNumber]
            /\ UNCHANGED rejected
    /\ UNCHANGED <<now, recentGenerations>>

\* route.ts POST: request.json() throws on a body that is not JSON
PostMalformed(ip) ==
    /\ pending[ip] > 0
    /\ pending' = [pending EXCEPT ![ip] = @ - 1]
    /\ rejected < MaxRejected
    /\ rejected' = rejected + 1
    /\ resp' = JsonError(500, "Internal server error",
                         "Failed to process generation request", 0)
    /\ UNCHANGED <<now, counter, registry, recentGenerations, accepted>>

\* a GET that stamps the counter with the time of the query
GetStamping ==
    /\ resp' = [NoResp EXCEPT !.kind = "GET", !.status = 200,
                              !.totalGenerated = counter.totalGenerated,
                              !.lastGeneration = now,
                              !.startedAt = counter.startedAt]
    /\ counter' = [counter EXCEPT !.lastGeneration = now]
    /\ UNCHANGED <<now, registry, recentGenerations, pending, accepted, rejected>>

\* route.ts GET
Get ==
    /\ resp' = [NoResp EXCEPT !.kind = "GET", !.status = 200,
                              !.totalGenerated = counter.totalGenerated,
                              !.lastGeneration = counter.lastGeneration,
                              !.startedAt = counter.startedAt]
    /\ UNCHANGED <<now, counter, registry, recentGenerations, pending,
                   accepted, rejected>>

\* time passes
Tick ==
    /\ now < MaxTicks * TickMs
    /\ now' = now + TickMs
    /\ resp' = NoResp
    /\ UNCHANGED <<counter, registry, recentGenerations, pending, accepted, rejected>>

ApiInit ==
    /\ now = 0
    /\ counter = [totalGenerated |-> 0, lastGeneration |-> 0, startedAt |-> 0]
    /\ registry = <<>>
    /\ recentGenerations = [h \in IpHashes |-> <<>>]
    /\ pending = [ip \in Ips |-> 0]
    /\ resp = NoResp
    /\ accepted = 0
    /\ rejected = 0

\* the clock of a day advances in steps of 80 minutes
DayTickMs == 80 * 60 * 1000

\* route.ts POST as a whole, for a request whose body is at hand
PostNow(ip, body) ==
    /\ recentGenerations' = checkRateLimitSet(ip)
    /\ IF ~checkRateLimit(ip)
       THEN /\ rejected < MaxRejected
            /\ rejected' = rejected + 1
            /\ resp' = JsonError(429, "Rate limit exceeded",
                   "Maximum 10 generations per hour. Please try again later.",
                   RetryAfter)
            /\ UNCHANGED <<counter, registry, accepted>>
       ELSE IF body.fingerprint = "" \/ body.promptHash = "" \/ Len(body.prompt) = 0
       THEN /\ rejected < MaxRejected
            /\ rejected' = rejected + 1
            /\ resp' = JsonError(400, "Missing required fields", "", 0)
            /\ UNCHANGED <<counter, registry, accepted>>
       ELSE IF ~Validation(body.prompt).valid
       THEN /\ rejected < MaxRejected
            /\ rejected' = rejected + 1
            /\ resp' = JsonError(400, "Invalid prompt",
                                 Validation(body.prompt).reason, 0)
            /\ UNCHANGED <<counter, registry, accepted>>
       ELSE /\ accepted < MaxDayAccepted
            /\ accepted' = accepted + 1
            /\ counter' = incrementCounter
            /\ registry' = incrementCounterRegistry(body.fingerprint, body.promptHash, ip)
            /\ resp' = [NoResp EXCEPT !.kind = "POST", !.status = 200,
                                      !.generationNumber = NewNumber]
            /\ UNCHANGED rejected
    /\ UNCHANGED <<now, pending>>

\* time passes once a caller has used up its quota of the hour
TickDay ==
    /\ now < MaxDayTicks * DayTickMs
    /\ \E ip \in Ips : ~checkRateLimit(ip)
    /\ now' = now + DayTickMs
    /\ resp' = NoResp
    /\ UNCHANGED <<counter, registry, recentGenerations, pending, accepted, rejected>>

\* time passes while no handler is suspended: every request body arrives at
\* the instant of its request
TickIdle ==
    /\ \A ip \in Ips : pending[ip] = 0
    /\ Tick

-----------------------------------------------------------------------------
(* Claims about the endpoint *)

\* the registry records of a caller
RegistryOf(ip) == SelectSeq(registry, LAMBDA r : r.ipHash = IpHashOf[ip])

\* the caller's accepted generations of the trailing hour
AcceptedInHour(ip) ==
    Cardinality({ i \in 1..Len(RegistryOf(ip)) :
                    RegistryOf(ip)[i].timestamp > now - HourMs })

\* a step in which a POST of the caller went through the rate limit check
IsPostCheck(ip) == recentGenerations'[IpHashOf[ip]] # recentGenerations[IpHashOf[ip]]

\* C1: the totalGenerated a GET returns never decreases (a GET returns the
\* counter, and the counter never decreases), every accepted POST increases it
\* by exactly 1 and nothing else changes it, and the k-th accepted POST is
\* answered with generation number k.
C1_CounterMonotone ==
    /\ [](counter.totalGenerated = accepted)
    /\ [][ /\ counter'.totalGenerated >= counter.totalGenerated
           /\ (resp'.kind = "GET" =>
                 /\ resp'.totalGenerated = counter.totalGenerated
                 /\ resp'.totalGenerated = accepted)
           /\ (accepted' = accepted + 1 =>
                 /\ counter'.totalGenerated = counter.totalGenerated + 1
                 /\ resp'.kind = "POST" /\ resp'.status = 200
                 /\ resp'.generationNumber = accepted')
           /\ (accepted' = accepted =>
                 counter'.totalGenerated = counter.totalGenerated)
         ]_vars

\* a GET that returns 3 after three accepted and one rejected POST, while
\* another POST handler is suspended
C1_Witness ==
    /\ resp.kind = "GET" /\ resp.totalGenerated = 3
    /\ accepted = 3 /\ rejected = 1
    /\ \E ip \in Ips : pending[ip] > 0

\* C2: for every caller, any trailing 60-minute window holds at most 10
\* of the caller's accepted generations (registry records).
C2_QuotaPerHour ==
    \A ip \in Ips :
        LET recs == RegistryOf(ip)
        IN  \A i \in 1..Len(recs) :
                Cardinality({ j \in 1..Len(recs) :
                                /\ recs[j].timestamp > recs[i].timestamp - HourMs
                                /\ recs[j].timestamp <= recs[i].timestamp })
                    <= RateLimit

\* the caller has 10 accepted requests within one hour of each other, the
\* oldest of them more than one hour ago
TenAcceptedAndOldestExpired(ip) ==
    LET recs == RegistryOf(ip)
    IN  \E i \in 1..(Len(recs) - (RateLimit - 1)) :
            /\ recs[i + RateLimit - 1].timestamp - recs[i].timestamp < HourMs
            /\ recs[i].timestamp < now - HourMs

\* C3: a request of a caller with exactly 10 accepted requests in the
\* trailing hour is answered 429; and once the oldest of 10 requests accepted
\* within one hour is more than one hour old and fewer than 10 accepted
\* requests of the caller lie in the trailing hour, the caller's request is not
\* answered 429, whatever the caller requested in between.
C3_QuotaWindowSlides ==
    [][ \A ip \in Ips :
          IsPostCheck(ip) =>
            /\ (AcceptedInHour(ip) = RateLimit => resp'.status = 429)
            /\ (TenAcceptedAndOldestExpired(ip) /\ AcceptedInHour(ip) < RateLimit
                  => resp'.status # 429)
      ]_vars

-----------------------------------------------------------------------------
(* lib/counter.ts: the counter kept in two JSON files.  An incrementCounter  *)
(* call runs up to its next await in one step; the file operation it awaits  *)
(* takes effect in the step that resumes the call.                           *)

RegistryFileCap == 10000

NoFile == [exists |-> FALSE, data |-> <<>>]

\* counter.ts initializeStorage: initialCounter
initialCounter == [totalGenerated |-> 0, lastGeneration |-> now, startedAt |-> now]

IdleCall == [pc |-> "idle", phase |-> 0, counter |-> initialCounter, newNumber |-> 0,
             registry |-> <<>>, ip |-> "", returned |-> 0]

\* the calls of the model
Calls == 1..MaxCalls

\* counter.ts initializeStorage, from the test of the counter file to the
\* first await: where the call is suspended next
initializeStorageFrom(counterExists, registryExists) ==
    IF ~counterExists THEN "initWriteCounter"
    ELSE IF ~registryExists THEN "initWriteRegistry"
    ELSE "initReturn"

\* incrementCounter(fingerprint, promptHash, ipAddress) is called and runs
\* into its first initializeStorage()
IncrementCounterCall(p, ip) ==
    /\ calls[p].pc = "idle"
    /\ calls' = [calls EXCEPT ![p].pc = initializeStorageFrom(counterFile.exists,
                                                              registryFile.exists),
                              ![p].phase = 1,
                              ![p].ip = ip]
    /\ UNCHANGED <<counterFile, registryFile>>

\* initializeStorage: writeFile(COUNTER_FILE, initialCounter) completes
InitializeStorageWriteCounter(p) ==
    /\ calls[p].pc = "initWriteCounter"
    /\ counterFile' = [exists |-> TRUE, data |-> initialCounter]
    /\ calls' = [calls EXCEPT ![p].pc = initializeStorageFrom(TRUE, registryFile.exists)]
    /\ UNCHANGED registryFile

\* initializeStorage: writeFile(REGISTRY_FILE, []) completes
InitializeStorageWriteRegistry(p) ==
    /\ calls[p].pc = "initWriteRegistry"
    /\ registryFile' = [exists |-> TRUE, data |-> <<>>]
    /\ calls' = [calls EXCEPT ![p].pc = "initReturn"]
    /\ UNCHANGED counterFile

\* `await initializeStorage()` resumes: in incrementCounter it is followed by
\* getCounter(), which starts with initializeStorage() again; in getCounter by
\* readFile(COUNTER_FILE)
InitializeStorageReturn(p) ==
    /\ calls[p].pc = "initReturn"
    /\ calls' = [calls EXCEPT ![p].pc = IF calls[p].phase = 1
                                          THEN initializeStorageFrom(counterFile.exists,
                                                                     registryFile.exists)
                                          ELSE "readCounter",
                              ![p].phase = 2]
    /\ UNCHANGED <<counterFile, registryFile>>

\* getCounter: readFile(COUNTER_FILE) completes; incrementCounter computes
\* newNumber and starts writeFile(COUNTER_FILE)
ReadCounter(p) ==
    /\ calls[p].pc = "readCounter"
    /\ counterFile.exists
    /\ calls' = [calls EXCEPT ![p].pc = "writeCounter",
                              ![p].newNumber = counterFile.data.totalGenerated + 1,
                              ![p].counter = [counterFile.data EXCEPT
                                                !.totalGenerated = counterFile.data.totalGenerated + 1,
                                                !.lastGeneration = now]]
    /\ UNCHANGED <<counterFile, registryFile>>

\* writeFile(COUNTER_FILE) completes; readFile(REGISTRY_FILE) starts
WriteCounter(p) ==
    /\ calls[p].pc = "writeCounter"
    /\ counterFile' = [exists |-> TRUE, data |-> calls[p].counter]
    /\ calls' = [calls EXCEPT ![p].pc = "readRegistry"]
    /\ UNCHANGED registryFile

\* counter.ts incrementCounter: the record pushed, the oldest one shifted out
\* beyond the cap
fileRegistryPush(records, record) ==
    LET pushed == Append(records, record)
    IN  IF Len(pushed) > RegistryFileCap THEN Tail(pushed) ELSE pushed

\* readFile(REGISTRY_FILE) completes; the record is pushed and
\* writeFile(REGISTRY_FILE) starts
ReadRegistry(p) ==
    /\ calls[p].pc = "readRegistry"
    /\ registryFile.exists
    /\ calls' = [calls EXCEPT ![p].pc = "writeRegistry",
                              ![p].registry = fileRegistryPush(registryFile.data,
                                    [generationNumber |-> calls[p].newNumber,
                                     fingerprint |-> BodyFingerprint,
                                     promptHash |-> BodyPromptHash,
                                     timestamp |-> now,
                                     ipHash |-> IpHashOf[calls[p].ip]])]
    /\ UNCHANGED <<counterFile, registryFile>>

\* writeFile(REGISTRY_FILE) completes; the call returns newNumber
WriteRegistry(p) ==
    /\ calls[p].pc = "writeRegistry"
    /\ registryFile' = [exists |-> TRUE, data |-> calls[p].registry]
    /\ calls' = [calls EXCEPT ![p].pc = "done", ![p].returned = calls[p].newNumber]
    /\ UNCHANGED counterFile

\* the files do not exist before the first call, or hold a counter of 0 and
\* an empty registry
FileInit ==
    /\ \E exists \in BOOLEAN :
          /\ counterFile = IF exists THEN [exists |-> TRUE, data |-> initialCounter] ELSE NoFile
          /\ registryFile = [exists |-> exists, data |-> <<>>]
    /\ calls = [p \in Calls |-> IdleCall]

\* no call has been made of the file-backed counter
FileIdle ==
    /\ counterFile = NoFile
    /\ registryFile = NoFile
    /\ calls = [p \in Calls |-> IdleCall]

-----------------------------------------------------------------------------
(* Claims about the file-backed counter *)

\* the calls that have returned
Completed == { p \in Calls : calls[p].pc = "done" }

\* no call is under way
Quiescent == \A p \in Calls : calls[p].pc \in {"idle", "done"}

\* C4: when no incrementCounter call of the file-backed counter is under way
\* and n calls have completed, totalGenerated is n, the n returned generation
\* numbers are pairwise distinct, and the registry file holds one record for
\* each of the n calls (n being below the size cap).
C4_NoLostUpdate ==
    (Quiescent /\ Completed # {}) =>
        /\ counterFile.data.totalGenerated = Cardinality(Completed)
        /\ \A p, q \in Completed : p # q => calls[p].returned # calls[q].returned
        /\ Len(registryFile.data) = Cardinality(Completed)
        /\ \A p \in Completed :
              \E i \in 1..Len(registryFile.data) :
                  registryFile.data[i].generationNumber = calls[p].returned

-----------------------------------------------------------------------------
(* lib/css-generator.ts: the template renderer.  A stylesheet is the record  *)
(* of the values the templates interpolate, a document the record of its     *)
(* stylesheet and of the class lists of the tendril elements; numbers        *)
(* printed with toFixed(d) are integers in units of 10^-d.                   *)

\* n / d rounded to the nearest integer, halves away from zero (toFixed)
RoundDiv(n, d) ==
    IF n >= 0 THEN (2 * n + d) \div (2 * d)
    ELSE -((2 * (-n) + d) \div (2 * d))

\* (40 + Math.sin(i) * 20).toFixed(1) and (10 + Math.cos(i) * 15).toFixed(1), in tenths
FrontHeight == <<568, 582, 428, 249, 208>>
FrontTop == <<181, 38, -48, 2, 143>>

\* (35 + Math.sin(i) * 25).toFixed(1) and (5 + Math.cos(i) * 20).toFixed(1), in tenths
BackHeight == <<560, 577, 385, 161, 110>>
BackTop == <<158, -33, -148, -81, 107>>

\* the values Math.random() returns in the model
RandomDraws == 0..(RandomSteps - 1)

\* (0.6 + Math.random() * 0.4).toFixed(2), in hundredths, for the draw k / RandomSteps
Opacity(k) == RoundDiv(60 * RandomSteps + 40 * k, RandomSteps)

\* css-generator.ts generateHairStyles: the rule `.front .tendril-i`;
\* curliness is in hundredths
FrontTendrilRule(P, i, draw) ==
    [selector |-> <<"front", i>>,
     left |-> RoundDiv(300 * P.hair.frontTendrils + 500 * i, P.hair.frontTendrils),
     height |-> FrontHeight[i],
     top |-> FrontTop[i],
     rotate |-> RoundDiv(-1800 * 100 * P.hair.frontTendrils + 3600 * i * P.hair.curliness,
                         100 * P.hair.frontTendrils),
     opacity |-> Opacity(draw)]

\* css-generator.ts generateHairStyles: the rule `.back .tendril-i`
BackTendrilRule(P, i) ==
    [selector |-> <<"back", i>>,
     left |-> RoundDiv(200 * P.hair.backTendrils + 800 * i, P.hair.backTendrils),
     height |-> BackHeight[i],
     top |-> BackTop[i],
     rotate |-> RoundDiv(-900 * P.hair.backTendrils + 1800 * i, P.hair.backTendrils)]

\* css-generator.ts generateHairStyles; draws[i] is what Math.random()
\* returned in the i-th round of the front loop
generateHairStyles(P, draws) ==
    [flowAngle |-> P.hair.flowAngle,
     front |-> [i \in 1..P.hair.frontTendrils |-> FrontTendrilRule(P, i, draws[i])],
     back |-> [i \in 1..P.hair.backTendrils |-> BackTendrilRule(P, i)]]

\* css-generator.ts generateCSS
generateCSS(P, draws) == [hair |-> generateHairStyles(P, draws)]

\* css-generator.ts generateHairHTML: the class lists of the elements
generateHairHTML(className, count) == [i \in 1..count |-> <<"tendril", <<"tendril", i>>>>]

\* css-generator.ts generateHTML
generateHTML(P, style) ==
    [style |-> style,
     back |-> generateHairHTML("back", P.hair.backTendrils),
     front |-> generateHairHTML("front", P.hair.frontTendrils),
     highlights |-> generateHairHTML("highlight", P.hair.highlightTendrils)]

\* css-generator.ts generateCSS: the class names of the selectors of the
\* rules that every stylesheet holds (canvas, head, hair, features, lighting)
CssClassNames ==
    {"paper", "container", "head", "hair", "back", "front", "highlights", "tendril",
     "eye", "iris", "eyeball", "nose", "toplip", "bottomlip",
     "cheekshine", "foreheadshine", "cheekbone"}

\* css-generator.ts generateHTML: the class names of the elements that every
\* document holds
HtmlClassNames ==
    {"paper", "container", "head", "nose", "forehead", "cheekbone", "cheekshine",
     "foreheadshine", "eye", "eyeball", "iris", "bottomlip", "toplip",
     "hair", "back", "front", "highlights"}

\* the selectors `.zone .tendril-i` of the per-tendril rules of a stylesheet
TendrilRuleSelectors(style) ==
    { style.hair.front[i].selector : i \in 1..Len(style.hair.front) }
        \cup { style.hair.back[i].selector : i \in 1..Len(style.hair.back) }

\* the records rendered in the model
RenderParams ==
    [hair : [frontTendrils : 1..MaxTendrils,
             backTendrils : 1..MaxTendrils,
             highlightTendrils : {1},
             curliness : {50, 100},
             flowAngle : {-15, 15}]]

\* the result of a call that has not returned yet (a stylesheet has at
\* least one rule, a document has a stylesheet)
NotRendered == [hair |-> [flowAngle |-> 0, front |-> <<>>, back |-> <<>>]]
NoDocument == [style |-> NotRendered, back |-> <<>>, front |-> <<>>, highlights |-> <<>>]

\* the two calls compared
Renders == 1..2

\* a call generateCSS(renderParams)
GenerateCSS(c) ==
    /\ css[c] = NotRendered
    /\ \E draws \in [1..renderParams.hair.frontTendrils -> RandomDraws] :
          css' = [css EXCEPT ![c] = generateCSS(renderParams, draws)]
    /\ UNCHANGED <<renderParams, html>>

\* a call generateHTML(renderParams, css[d])
GenerateHTML(c, d) ==
    /\ html[c] = NoDocument
    /\ css[d] # NotRendered
    /\ html' = [html EXCEPT ![c] = generateHTML(renderParams, css[d])]
    /\ UNCHANGED <<renderParams, css>>

RenderInit ==
    /\ renderParams \in RenderParams
    /\ css = [c \in Renders |-> NotRendered]
    /\ html = [c \in Renders |-> NoDocument]

\* nothing is rendered
RenderIdle ==
    /\ renderParams = CHOOSE P \in RenderParams : TRUE
    /\ css = [c \in Renders |-> NotRendered]
    /\ html = [c \in Renders |-> NoDocument]

-----------------------------------------------------------------------------
(* Claims about the renderer *)

\* C5: two calls of generateCSS(P) return the same stylesheet, and two calls
\* of generateHTML(P, css) with the same css return the same document.
C5_RenderIdempotent ==
    /\ (css[1] # NotRendered /\ css[2] # NotRendered) => css[1] = css[2]
    /\ (html[1] # NoDocument /\ html[2] # NoDocument /\ html[1].style = html[2].style)
          => html[1] = html[2]

-----------------------------------------------------------------------------
(* lib/randomness.ts: SeededRandom.  this.seed is a double; the doubles that *)
(* occur are m / 2^k for natural numbers m and k, kept as the digits of m in *)
(* base 2^11 (least significant first) together with k.  A product or sum   *)
(* of doubles is the exact result rounded to 53 significant bits, ties to    *)
(* even.                                                                     *)

DigitBits == 11
Base == 2^DigitBits
BigLen == 6
DoubleBits == 53

RECURSIVE BigCarry(_, _, _, _)
\* the digits of the number whose i-th digit position holds raw[i]
BigCarry(raw, i, carry, acc) ==
    IF i > BigLen THEN acc
    ELSE BigCarry(raw, i + 1, (raw[i] + carry) \div Base,
                  Append(acc, (raw[i] + carry) % Base))

BigFromInt(n) == BigCarry([i \in 1..BigLen |-> IF i = 1 THEN n ELSE 0], 1, 0, <<>>)

BigAdd(x, y) == BigCarry([i \in 1..BigLen |-> x[i] + y[i]], 1, 0, <<>>)

\* x * y for x, y < 2^33
BigMul(x, y) ==
    LET term(i, k) == IF (k + 1 - i) \in 1..3 THEN x[i] * y[k + 1 - i] ELSE 0
    IN  BigCarry([k \in 1..BigLen |-> term(1, k) + term(2, k) + term(3, k)], 1, 0, <<>>)

\* 2^e
BigPow2(e) == [i \in 1..BigLen |-> IF i = (e \div DigitBits) + 1 THEN 2^(e % DigitBits) ELSE 0]

\* -1, 0, 1 as x is below, equal to, above y
BigCmp(x, y) ==
    LET differ == { i \in 1..BigLen : x[i] # y[i] }
    IN  IF differ = {} THEN 0
        ELSE LET top == CHOOSE i \in differ : \A j \in differ : j <= i
             IN  IF x[top] < y[top] THEN -1 ELSE 1

\* the number of significant bits of x
BigBitLen(x) ==
    LET nonzero == { i \in 1..BigLen : x[i] # 0 }
    IN  IF nonzero = {} THEN 0
        ELSE LET top == CHOOSE i \in nonzero : \A j \in nonzero : j <= i
             IN  DigitBits * (top - 1) + Cardinality({ j \in 0..(DigitBits - 1) : 2^j <= x[top] })

\* x mod 2^e
BigLowBits(x, e) ==
    [i \in 1..BigLen |->
        IF i <= e \div DigitBits THEN x[i]
        ELSE IF i = (e \div DigitBits) + 1 THEN x[i] % 2^(e % DigitBits)
        ELSE 0]

\* x - (x mod 2^e)
BigClearLow(x, e) == [i \in 1..BigLen |-> x[i] - BigLowBits(x, e)[i]]

\* floor(x / 2^e)
BigShiftRight(x, e) ==
    LET q == e \div DigitBits
        r == e % DigitBits
        digit(i) == IF i <= BigLen THEN x[i] ELSE 0
    IN  [i \in 1..BigLen |->
            (digit(i + q) \div 2^r) + (digit(i + q + 1) % 2^r) * 2^(DigitBits - r)]

\* x mod 2^31, as an integer
BigLow31(x) == x[1] + Base * x[2] + Base * Base * (x[3] % 2^(31 - 2 * DigitBits))

\* x rounded to 53 significant bits, ties to even: the double nearest to x
RoundToDouble(x) ==
    LET e == BigBitLen(x) - DoubleBits
    IN  IF e <= 0 THEN x
        ELSE LET low == BigLowBits(x, e)
                 half == BigCmp(low, BigPow2(e - 1))
                 odd == BigShiftRight(x, e)[1] % 2 = 1
             IN  IF half = 1 \/ (half = 0 /\ odd)
                 THEN BigAdd(BigClearLow(x, e), BigPow2(e))
                 ELSE BigClearLow(x, e)

LcgMultiplier == 1103515245
LcgIncrement == 12345

\* a double with the integer value n
Double(n) == [m |-> BigFromInt(n), k |-> 0]

\* Math.abs(hash) of a 32-bit hash (2^31 for the hash -2^31)
AbsDouble(hash) ==
    IF hash = MinInt32 THEN [m |-> BigPow2(31), k |-> 0]
    ELSE Double(IF hash < 0 THEN -hash ELSE hash)

\* randomness.ts SeededRandom.hashString
hashString(str) == AbsDouble(Hash32(str))

\* randomness.ts SeededRandom constructor; a seed is a string or a number
constructor(seed) ==
    IF seed.kind = "string" THEN hashString(seed.chars)
    ELSE [m |-> BigFromInt(seed.m), k |-> seed.k]

\* randomness.ts SeededRandom.next, line 35: the new this.seed, an integer
\* below 2^31 (& takes the integer part of the double modulo 2^32)
nextSeed(state) ==
    LET product == RoundToDouble(BigMul(state.m, BigFromInt(LcgMultiplier)))
        sum == RoundToDouble(BigAdd(product,
                                    BigMul(BigFromInt(LcgIncrement), BigPow2(state.k))))
    IN  BigLow31(BigShiftRight(sum, state.k))

\* floor(s * n / 0x7fffffff) and the remainder, for s < 2^31 and 0 < n < 2^31
MulDiv(s, n) ==
    LET product == BigMul(BigFromInt(s), BigFromInt(n))
        hi == BigLow31(BigShiftRight(product, 31))
        lo == BigLow31(product)
    IN  IF lo >= MaxInt32 - hi
        THEN [quot |-> hi + 1, rem |-> lo - (MaxInt32 - hi)]
        ELSE [quot |-> hi, rem |-> hi + lo]

\* randomness.ts SeededRandom.nextInt, given this.seed after next():
\* next() is seed / 0x7fffffff
nextInt(seed, min, max) == MulDiv(seed, max - min + 1).quot + min

\* randomness.ts SeededRandom.pick: the index of the element returned
pick(seed, length) == nextInt(seed, 0, length - 1)

RECURSIVE Draws(_, _)
\* what `count` calls of next() return, times 0x7fffffff
Draws(state, count) ==
    IF count = 0 THEN <<>>
    ELSE IF count = 1 THEN <<nextSeed(state)>>
    ELSE LET first == Draws(state, count \div 2)
         IN  first \o Draws(Double(first[count \div 2]), count - (count \div 2))

StringSeed(chars) == [kind |-> "string", chars |-> chars, m |-> 0, k |-> 0]

\* the number m / 2^k
NumberSeed(m, k) == [kind |-> "number", chars |-> <<>>, m |-> m, k |-> k]

\* randomness.ts generateRandomValues: the values divided by 100, times 0x7fffffff
generateRandomValues(seed, count) == Draws(constructor(StringSeed(seed)), count)

\* "", "a", "a cat", "serene portrait in blue tones", "polygenelubricants"
\* and a seed of the shape generateSeed returns, "a cat::0::x::anonymous"
SeedStrings ==
    { <<>>,
      <<97>>,
      PromptValid,
      <<115, 101, 114, 101, 110, 101, 32, 112, 111, 114, 116, 114, 97, 105, 116, 32, 105, 110, 32, 98, 108, 117, 101, 32, 116, 111, 110, 101, 115>>,
      <<112, 111, 108, 121, 103, 101, 110, 101, 108, 117, 98, 114, 105, 99, 97, 110, 116, 115>>,
      <<97, 32, 99, 97, 116, 58, 58, 48, 58, 58, 120, 58, 58, 97, 110, 111, 110, 121, 109, 111, 117, 115>> }

\* 0, 1, 8162279, 230538014, 0x7fffffff and 7.78414461016655 (261192551 / 2^25)
SeedNumbers ==
    { NumberSeed(0, 0), NumberSeed(1, 0), NumberSeed(8162279, 0),
      NumberSeed(230538014, 0), NumberSeed(MaxInt32, 0), NumberSeed(261192551, 25) }

Seeds == { StringSeed(s) : s \in SeedStrings } \cup SeedNumbers

\* the seeds generateSeed returns for the prompts "a cat" and
\* "serene portrait in blue tones":
\* prompt::timestamp::random::anonymous
GeneratedSeeds ==
    { prompt \o <<58, 58>> \o timestamp \o <<58, 58>> \o random \o <<58, 58, 97, 110, 111, 110, 121, 109, 111, 117, 115>> :
        prompt \in { PromptValid, <<115, 101, 114, 101, 110, 101, 32, 112, 111, 114, 116, 114, 97, 105, 116, 32, 105, 110, 32, 98, 108, 117, 101, 32, 116, 111, 110, 101, 115>> },
        timestamp \in { <<48>>, <<49, 55, 48, 48, 48, 48, 48, 48, 48, 48, 48, 48, 48>>, <<49, 55, 54, 50, 50, 49, 52, 52, 48, 48, 49, 50, 51>>,
                        <<49, 55, 54, 50, 50, 49, 52, 52, 48, 48, 48, 51, 53>> },
        random \in { <<120>>, <<107, 51, 106, 57, 120, 50, 113, 56>>, <<48, 52, 122, 55>> } }

ParameterSeeds == SeedStrings \cup GeneratedSeeds

Instances == 1..2

\* a generator whose initial state also counts the instances built so far
NewSeededRandomCounted(i, seed) ==
    [m |-> BigAdd(constructor(seed).m, BigFromInt(i)), k |-> constructor(seed).k]

\* `new SeededRandom(seed)`, the i-th instance built
NewSeededRandom(i, seed) == constructor(seed)

\* the arguments of nextInt and the lengths of the lists given to pick
IntRanges == { <<0, 0>>, <<0, 9>>, <<-3, 3>> }
ListLengths == { 1, 5 }

NoCall == [op |-> "none", instance |-> 0, min |-> 0, max |-> 0, result |-> 0]

\* instance i: next()
CallNext(i) ==
    /\ Len(rngReturned[i]) < MaxDraws
    /\ \E seed \in {nextSeed(rngState[i])} :
          /\ rngState' = [rngState EXCEPT ![i] = Double(seed)]
          /\ rngReturned' = [rngReturned EXCEPT ![i] = Append(@, seed)]
          /\ rngCall' = [op |-> "next", instance |-> i, min |-> 0, max |-> 0, result |-> seed]
    /\ UNCHANGED <<rngSeed, params>>

\* instance i: nextInt(min, max)
CallNextInt(i) ==
    /\ Len(rngReturned[i]) < MaxDraws
    /\ \E seed \in {nextSeed(rngState[i])} :
          /\ rngState' = [rngState EXCEPT ![i] = Double(seed)]
          /\ rngReturned' = [rngReturned EXCEPT ![i] = Append(@, seed)]
          /\ \E range \in IntRanges :
                rngCall' = [op |-> "nextInt", instance |-> i,
                            min |-> range[1], max |-> range[2],
                            result |-> nextInt(seed, range[1], range[2])]
    /\ UNCHANGED <<rngSeed, params>>

\* instance i: pick(array); the result is the index read
CallPick(i) ==
    /\ Len(rngReturned[i]) < MaxDraws
    /\ \E seed \in {nextSeed(rngState[i])} :
          /\ rngState' = [rngState EXCEPT ![i] = Double(seed)]
          /\ rngReturned' = [rngReturned EXCEPT ![i] = Append(@, seed)]
          /\ \E length \in ListLengths :
                rngCall' = [op |-> "pick", instance |-> i, min |-> 0, max |-> length - 1,
                            result |-> pick(seed, length)]
    /\ UNCHANGED <<rngSeed, params>>

-----------------------------------------------------------------------------
(* lib/parameter-generator.ts: generateParameters.  A mapped value is        *)
(* whole + frac / 0x7fffffff in the unit of its field: 1 for the head, the   *)
(* counts and the angles, 0.01 for curliness, the feature sizes, the         *)
(* lighting intensity and the blur.                                          *)

\* parameter-generator.ts MOOD_PRESETS: its keys, in order
MoodPresets == <<"melancholic", "hopeful", "dramatic", "serene", "joyful">>

Moods == Range(MoodPresets)

\* the mood argument left out
Undefined == "undefined"

\* a mapRange without the `+ outMin`
mapRangeNoOffset(value, inMin, inMax, outMin, outMax) ==
    [whole |-> MulDiv(value, outMax - outMin).quot,
     frac |-> MulDiv(value, outMax - outMin).rem]

\* randomness.ts mapRange; every call maps from [0, 100], the range of the
\* random values, so (value - inMin) / (inMax - inMin) is next()
mapRange(value, inMin, inMax, outMin, outMax) ==
    [whole |-> MulDiv(value, outMax - outMin).quot + outMin,
     frac |-> MulDiv(value, outMax - outMin).rem]

\* Math.floor of a mapped value
Floor(x) == x.whole

\* parameter-generator.ts generateParameters, given randValues
parametersFrom(randValues, mood) ==
    [moodColors |-> IF mood = Undefined THEN "serene" ELSE mood,
     canvas |-> [width |-> 650, height |-> 800],
     head |-> [top |-> mapRange(randValues[1], 0, 100, 12, 16),
               left |-> mapRange(randValues[2], 0, 100, 27, 31),
               rotation |-> mapRange(randValues[3], 0, 100, 10, 25)],
     hair |-> [frontTendrils |-> Floor(mapRange(randValues[4], 0, 100, 35, 45)),
               backTendrils |-> Floor(mapRange(randValues[5], 0, 100, 20, 30)),
               highlightTendrils |-> Floor(mapRange(randValues[6], 0, 100, 4, 8)),
               curliness |-> mapRange(randValues[7], 0, 100, 50, 100),
               flowAngle |-> mapRange(randValues[8], 0, 100, -15, 15)],
     features |-> [eyeSize |-> mapRange(randValues[9], 0, 100, 90, 110),
                   noseSize |-> mapRange(randValues[10], 0, 100, 95, 105),
                   lipFullness |-> mapRange(randValues[11], 0, 100, 90, 120)],
     lighting |-> [intensity |-> mapRange(randValues[12], 0, 100, 60, 100),
                   angle |-> mapRange(randValues[13], 0, 100, 0, 360),
                   shadowLayers |-> Floor(mapRange(randValues[14], 0, 100, 6, 12))],
     style |-> [blur |-> mapRange(randValues[15], 0, 100, 50, 250),
                contrast |-> IF mood = "dramatic" THEN "dramatic" ELSE "high"]]

RandValuesCount == 30

\* parameter-generator.ts generateParameters
generateParameters(seed, mood) ==
    parametersFrom(generateRandomValues(seed, RandValuesCount), mood)

\* generateRandomValues(seed, 30) and generateParameters(seed, mood) for the
\* seed strings of the model
RandValuesOf == [seed \in ParameterSeeds |-> generateRandomValues(seed, RandValuesCount)]

ParametersOf ==
    [seed \in ParameterSeeds |->
        [mood \in Moods \cup {Undefined} |-> parametersFrom(RandValuesOf[seed], mood)]]

NoParams == parametersFrom([i \in 1..15 |-> 0], "none")

\* generateParameters(rngSeed, mood) is called
GenerateParameters(mood) ==
    /\ rngSeed.kind = "string"
    /\ params' = ParametersOf[rngSeed.chars][mood]
    /\ UNCHANGED <<rngSeed, rngState, rngReturned, rngCall>>

\* generateParameters is called with one of the seed strings
ParametersInit ==
    /\ rngSeed \in { StringSeed(s) : s \in ParameterSeeds }
    /\ rngState = [i \in Instances |-> NewSeededRandom(i, rngSeed)]
    /\ rngReturned = [i \in Instances |-> <<>>]
    /\ rngCall = NoCall
    /\ params = NoParams

RandomInit ==
    /\ rngSeed \in Seeds
    /\ rngState = [i \in Instances |-> NewSeededRandom(i, rngSeed)]
    /\ rngReturned = [i \in Instances |-> <<>>]
    /\ rngCall = NoCall
    /\ params = NoParams

\* no generator is in use
RandomIdle ==
    /\ rngSeed = StringSeed(<<>>)
    /\ rngState = [i \in Instances |-> Double(0)]
    /\ rngReturned = [i \in Instances |-> <<>>]
    /\ rngCall = NoCall
    /\ params = NoParams

-----------------------------------------------------------------------------
(* lib/parameter-generator.ts: validateParameters, called with a record of   *)
(* the shape generateParameters returns                                      *)

\* the mapped value n
Whole(n) == [whole |-> n, frac |-> 0]

\* x < n, x > n and x <= n for a mapped value x and an integer n
MappedLess(x, n) == x.whole < n
MappedGreater(x, n) == x.whole > n \/ (x.whole = n /\ x.frac > 0)
MappedAtMost(x, n) == ~MappedGreater(x, n)

\* parameter-generator.ts validateParameters
validateParameters(P) ==
    IF P.canvas.width <= 0 \/ P.canvas.height <= 0 THEN FALSE
    ELSE IF MappedLess(P.head.rotation, -180) \/ MappedGreater(P.head.rotation, 180) THEN FALSE
    ELSE IF P.hair.frontTendrils < 0 \/ P.hair.backTendrils < 0 THEN FALSE
    ELSE IF MappedAtMost(P.features.eyeSize, 0) \/ MappedAtMost(P.features.noseSize, 0) THEN FALSE
    ELSE TRUE

\* generateParameters for a stream of zeros and the serene mood: every field
\* at the low end of its range
LowestParams == parametersFrom([i \in 1..15 |-> 0], "serene")

\* the records validateParameters is called with: LowestParams with fields
\* replaced by values inside and outside their ranges
CheckedRecords ==
    { [LowestParams EXCEPT !.canvas.width = width,
                           !.head.rotation = Whole(rotation),
                           !.hair.frontTendrils = front,
                           !.hair.backTendrils = back,
                           !.hair.highlightTendrils = highlight,
                           !.features.eyeSize = Whole(eyeSize),
                           !.lighting.shadowLayers = layers] :
        width \in {0, 650}, rotation \in {-181, 10, 25, 26, 181},
        front \in {-1, 35, 45, 46}, back \in {-1, 20}, highlight \in {-1, 4},
        eyeSize \in {0, 90, 111}, layers \in {-1, 6} }

\* validateParameters(checkArg) is called and returns
ValidateParameters ==
    /\ checkRet = <<>>
    /\ checkRet' = <<validateParameters(checkArg)>>
    /\ UNCHANGED checkArg

CheckInit ==
    /\ checkArg \in CheckedRecords
    /\ checkRet = <<>>

\* validateParameters is not called
CheckIdle ==
    /\ checkArg = LowestParams
    /\ checkRet = <<>>

-----------------------------------------------------------------------------
(* Claims about the value stream and the parameters *)

InRange(x, lo, hi) == x.whole >= lo /\ (x.whole < hi \/ (x.whole = hi /\ x.frac = 0))

\* C7: every numeric field of the record generateParameters returns lies in
\* its declared range, and the counts are non-negative integers.
C7_ParametersInRange ==
    params # NoParams =>
        /\ InRange(params.head.top, 12, 16)
        /\ InRange(params.head.left, 27, 31)
        /\ InRange(params.head.rotation, 10, 25)
        /\ params.hair.frontTendrils \in 35..45
        /\ params.hair.backTendrils \in 20..30
        /\ params.hair.highlightTendrils \in 4..8
        /\ InRange(params.hair.curliness, 50, 100)
        /\ InRange(params.hair.flowAngle, -15, 15)
        /\ InRange(params.features.eyeSize, 90, 110)
        /\ InRange(params.features.noseSize, 95, 105)
        /\ InRange(params.features.lipFullness, 90, 120)
        /\ InRange(params.lighting.intensity, 60, 100)
        /\ InRange(params.lighting.angle, 0, 360)
        /\ params.lighting.shadowLayers \in 6..12
        /\ InRange(params.style.blur, 50, 250)
        /\ \A count \in {params.hair.frontTendrils, params.hair.backTendrils,
                         params.hair.highlightTendrils, params.lighting.shadowLayers} :
              count \in Nat

C7_Witness ==
    /\ rngSeed = StringSeed(PromptValid)
    /\ params # NoParams
    /\ params.moodColors = "dramatic"
    /\ params.hair.frontTendrils = 36
    /\ params.hair.backTendrils = 20
    /\ params.lighting.shadowLayers = 10

\* (state * 1103515245 + 12345) mod 2^31 for an integer state
ExactLcgStep(state) ==
    BigLow31(BigAdd(BigMul(state.m, BigFromInt(LcgMultiplier)), BigFromInt(LcgIncrement)))

\* the state is an integer in 0 .. 2^31 - 1
IsState31(state) == state.k = 0 /\ BigCmp(state.m, BigPow2(31)) = -1

\* C8: the state of a SeededRandom instance is always a non-negative integer
\* below 2^31, every next() advances it by
\* state' = (state * 1103515245 + 12345) mod 2^31, and next() returns a value
\* below 1.
C8_ExactLcg ==
    /\ [](\A i \in Instances : IsState31(rngState[i]))
    /\ [][ \A i \in Instances :
             rngState'[i] # rngState[i] =>
                rngState'[i] = Double(ExactLcgStep(rngState[i])) ]_vars
    /\ [](\A i \in Instances : \A n \in 1..Len(rngReturned[i]) :
             rngReturned[i][n] >= 0 /\ rngReturned[i][n] < MaxInt32)

\* C9: nextInt(min, max) returns an integer in min..max, and pick(list)
\* reads an index below the length of the list.
C9_IntInRange ==
    /\ rngCall.op = "nextInt" => (rngCall.result >= rngCall.min /\ rngCall.result <= rngCall.max)
    /\ rngCall.op = "pick" => (rngCall.result >= 0 /\ rngCall.result <= rngCall.max)

-----------------------------------------------------------------------------
(* lib/parameter-generator.ts detectMood, lib/security.ts validateQuality   *)
(* and app/page.tsx: the prompt, the mood presets and handleGenerate.       *)

\* the keys of MOOD_PRESETS as character strings
MoodChars ==
       "melancholic" :> <<109, 101, 108, 97, 110, 99, 104, 111, 108, 105, 99>>
    @@ "hopeful" :> <<104, 111, 112, 101, 102, 117, 108>>
    @@ "dramatic" :> <<100, 114, 97, 109, 97, 116, 105, 99>>
    @@ "serene" :> <<115, 101, 114, 101, 110, 101>>
    @@ "joyful" :> <<106, 111, 121, 102, 117, 108>>

\* the alternatives of the synonym patterns of detectMood, in the order of
\* the tests
MoodSynonyms ==
    <<[mood |-> "melancholic",
       words |-> {<<115, 97, 100>>,
                  <<98, 108, 117, 101>>,
                  <<109, 101, 108, 97, 110, 99, 104, 111, 108, 121>>,
                  <<115, 111, 109, 98, 101, 114>>}],
      [mood |-> "hopeful",
       words |-> {<<104, 97, 112, 112, 121>>,
                  <<98, 114, 105, 103, 104, 116>>,
                  <<111, 112, 116, 105, 109, 105, 115, 116, 105, 99>>,
                  <<108, 105, 103, 104, 116>>}],
      [mood |-> "dramatic",
       words |-> {<<105, 110, 116, 101, 110, 115, 101>>,
                  <<100, 97, 114, 107>>,
                  <<109, 111, 111, 100, 121>>,
                  <<115, 104, 97, 100, 111, 119>>}],
      [mood |-> "serene",
       words |-> {<<99, 97, 108, 109>>,
                  <<112, 101, 97, 99, 101, 102, 117, 108>>,
                  <<103, 101, 110, 116, 108, 101>>,
                  <<115, 111, 102, 116>>}],
      [mood |-> "joyful",
       words |-> {<<118, 105, 98, 114, 97, 110, 116>>,
                  <<101, 110, 101, 114, 103, 101, 116, 105, 99>>,
                  <<108, 105, 118, 101, 108, 121>>,
                  <<99, 104, 101, 101, 114, 102, 117, 108>>}]>>

\* what detectMood returns when nothing matches
Null == "null"

Min(S) == CHOOSE i \in S : \A k \in S : i <= k

\* a detectMood that consults the synonyms before the mood names
detectMoodSynonymsFirst(prompt) ==
    LET lowerPrompt == ToLowerCase(prompt)
        named == { i \in 1..Len(MoodPresets) :
                      Includes(lowerPrompt, MoodChars[MoodPresets[i]]) }
        synonym == { i \in 1..Len(MoodSynonyms) :
                      \E w \in MoodSynonyms[i].words : Includes(lowerPrompt, w) }
    IN  IF synonym # {} THEN MoodSynonyms[Min(synonym)].mood
        ELSE IF named # {} THEN MoodPresets[Min(named)]
        ELSE Null

\* parameter-generator.ts detectMood
detectMood(prompt) ==
    LET lowerPrompt == ToLowerCase(prompt)
        named == { i \in 1..Len(MoodPresets) :
                      Includes(lowerPrompt, MoodChars[MoodPresets[i]]) }
        synonym == { i \in 1..Len(MoodSynonyms) :
                      \E w \in MoodSynonyms[i].words : Includes(lowerPrompt, w) }
    IN  IF named # {} THEN MoodPresets[Min(named)]
        ELSE IF synonym # {} THEN MoodSynonyms[Min(synonym)].mood
        ELSE Null

MinWordsInPrompt == 2

ReasonDescribe ==
    "Prompt should describe the artwork (e.g., \"serene portrait in blue tones\")"

\* the length of s.split(/\s+/) for a trimmed s
SplitLength(s) ==
    1 + Cardinality({ i \in 2..Len(s) : IsSpace(s[i]) /\ ~IsSpace(s[i - 1]) })

\* security.ts validateQuality
validateQuality(prompt) ==
    IF SplitLength(Trim(ToLowerCase(prompt))) < MinWordsInPrompt
        THEN [valid |-> FALSE, reason |-> ReasonDescribe]
    ELSE [valid |-> TRUE, reason |-> ""]

\* a resolution that asks the prompt before the preset
handleGenerateMoodPromptFirst(preset, text) ==
    IF detectMood(text) # Null THEN detectMood(text)
    ELSE IF preset # Undefined THEN preset
    ELSE "serene"

\* page.tsx handleGenerate: selectedPreset || detectMood(prompt) || 'serene'
handleGenerateMood(preset, text) ==
    IF preset # Undefined THEN preset
    ELSE IF detectMood(text) # Null THEN detectMood(text)
    ELSE "serene"

\* what the visitor types: every mood name and every synonym in a two-word
\* prompt, and prompts that are blank, have one word, match nothing, match in
\* capitals, match inside a word, or match several moods at once
StrPortrait == <<32, 112, 111, 114, 116, 114, 97, 105, 116>>      \* " portrait"
PromptsOneMatch ==
    { w \o StrPortrait : w \in { MoodChars[m] : m \in Moods } }
        \cup { w \o StrPortrait : w \in UNION { MoodSynonyms[i].words : i \in 1..Len(MoodSynonyms) } }

PromptCapitals == <<83, 65, 68, 32, 80, 111, 114, 116, 114, 97, 105, 116>>      \* "SAD Portrait"
PromptNameAndSynonym == <<97, 32, 115, 97, 100, 32, 106, 111, 121, 102, 117, 108, 32, 102, 97, 99, 101>>      \* "a sad joyful face"
PromptTwoSynonyms == <<104, 97, 112, 112, 121, 32, 115, 97, 100, 32, 102, 97, 99, 101>>      \* "happy sad face"
PromptTwoNames == <<115, 101, 114, 101, 110, 101, 32, 100, 114, 97, 109, 97, 116, 105, 99, 32, 97, 114, 116>>      \* "serene dramatic art"
PromptInsideWord == <<115, 108, 105, 103, 104, 116, 32, 115, 109, 105, 108, 101>>      \* "slight smile"
PromptLaterSynonyms == <<99, 97, 108, 109, 32, 100, 97, 114, 107, 32, 112, 101, 114, 115, 111, 110>>      \* "calm dark person"
PromptSereneBlue == <<115, 101, 114, 101, 110, 101, 32, 112, 111, 114, 116, 114, 97, 105, 116, 32, 105, 110, 32, 98, 108, 117, 101, 32, 116, 111, 110, 101, 115>>      \* "serene portrait in blue tones"
PromptScriptTag == <<60, 115, 99, 114, 105, 112, 116, 62, 97, 108, 101, 114, 116, 40, 49, 41, 60, 47, 115, 99, 114, 105, 112, 116, 62, 32, 112, 111, 114, 116, 114, 97, 105, 116>>      \* "<script>alert(1)</script> portrait"
PromptScriptCapitals == <<60, 83, 67, 82, 73, 80, 84, 62, 32, 97, 114, 116>>      \* "<SCRIPT> art"

PagePrompts ==
    PromptsOneMatch
        \cup {<<>>, PromptBlank, PromptOneWord, PromptValid, PromptCapitals,
              PromptNameAndSynonym, PromptTwoSynonyms, PromptTwoNames,
              PromptInsideWord, PromptLaterSynonyms, PromptScriptTag,
              PromptScriptCapitals, PromptSereneBlue}

\* no handleGenerate call is running
NoHandle == [prompt |-> <<>>, selectedPreset |-> Undefined, mood |-> Undefined]

\* the answers of POST /api/generate: ok, or an error with or without a message
FetchResponses ==
    { [ok |-> TRUE, message |-> ""],
      [ok |-> FALSE, message |-> "Maximum 10 generations per hour. Please try again later."],
      [ok |-> FALSE, message |-> ""] }

\* the messages of the errors fetch is rejected with
FetchErrors == {"Failed to fetch", ""}

\* page.tsx textarea onChange
SetPrompt(text) ==
    /\ pagePrompt' = text
    /\ UNCHANGED <<selectedPreset, isGenerating, pageError, handleCall>>

\* page.tsx the onClick of a mood preset button
SelectPreset(preset) ==
    /\ selectedPreset' = IF preset = selectedPreset THEN Undefined ELSE preset
    /\ UNCHANGED <<pagePrompt, isGenerating, pageError, handleCall>>

\* page.tsx handleGenerate, from the click on the enabled button to
\* `await fetch`
HandleGenerate ==
    /\ ~(isGenerating \/ Trim(pagePrompt) = <<>>)
    /\ IF Trim(pagePrompt) = <<>>
       THEN /\ pageError' = "Please enter a prompt!"
            /\ UNCHANGED <<isGenerating, handleCall>>
       ELSE IF ~validateQuality(pagePrompt).valid
       THEN /\ pageError' = validateQuality(pagePrompt).reason
            /\ UNCHANGED <<isGenerating, handleCall>>
       ELSE /\ pageError' = ""
            /\ isGenerating' = TRUE
            /\ handleCall' = [prompt |-> pagePrompt,
                              selectedPreset |-> selectedPreset,
                              mood |-> handleGenerateMood(selectedPreset, pagePrompt)]
    /\ UNCHANGED <<pagePrompt, selectedPreset>>

\* page.tsx handleGenerate, from the response of fetch to the end
HandleResponse(response) ==
    /\ handleCall # NoHandle
    /\ pageError' = IF response.ok THEN pageError
                    ELSE IF response.message # "" THEN response.message
                    ELSE "Generation failed"
    /\ isGenerating' = FALSE
    /\ handleCall' = NoHandle
    /\ UNCHANGED <<pagePrompt, selectedPreset>>

\* page.tsx handleGenerate, from the rejection of fetch to the end
HandleRejection(message) ==
    /\ handleCall # NoHandle
    /\ pageError' = IF message # "" THEN message
                    ELSE "Failed to generate artwork. Please try again."
    /\ isGenerating' = FALSE
    /\ handleCall' = NoHandle
    /\ UNCHANGED <<pagePrompt, selectedPreset>>

\* randomness.ts generateSeed: prompt::timestamp::random::anonymous
generateSeed(prompt, timestamp, random) ==
    prompt \o <<58, 58>> \o timestamp \o <<58, 58>> \o random
        \o <<58, 58, 97, 110, 111, 110, 121, 109, 111, 117, 115>>

\* provenance.ts createProvenance: the hashes of the record
createProvenance(prompt, seed, timestamp) ==
    [promptHash |-> createFingerprint(prompt),
     fingerprint |-> createFingerprint(seed \o prompt \o timestamp)]

\* what Date.now(), Math.random().toString(36).substring(2) and
\* new Date().toISOString() return in handleGenerate
SeedTimestamp == <<48>>                                         \* "0"
SeedRandom == <<120>>                                           \* "x"
ProvenanceTimestamp ==                                          \* "1970-01-01T00:00:00.000Z"
    <<49, 57, 55, 48, 45, 48, 49, 45, 48, 49, 84, 48, 48, 58, 48, 48, 58, 48, 48, 46, 48, 48, 48, 90>>

\* page.tsx handleGenerate: the body of its POST
PostBodyOf(call) ==
    LET sanitized == sanitizePrompt(call.prompt)
        prov == createProvenance(sanitized,
                                 generateSeed(call.prompt, SeedTimestamp, SeedRandom),
                                 ProvenanceTimestamp)
    IN  [fingerprint |-> prov.fingerprint, promptHash |-> prov.promptHash,
         prompt |-> sanitized]

\* page.tsx handleGenerate: genRes.ok and errorData.message of an answer
FetchResponse(r) == [ok |-> r.status >= 200 /\ r.status < 300, message |-> r.message]

\* the POST of handleGenerate reaches the endpoint: route.ts POST up to
\* `await request.json()`; a 429 is read by handleGenerate in the same step
SubmitCheck(ip) ==
    /\ handleCall # NoHandle
    /\ pending[ip] = 0
    /\ PostCheck(ip)
    /\ IF resp'.status = 429
       THEN HandleResponse(FetchResponse(resp'))
       ELSE UNCHANGED pageVars

\* route.ts POST from the parsed body of handleGenerate's POST to the
\* response, which handleGenerate reads in the same step
SubmitBody(ip) ==
    /\ handleCall # NoHandle
    /\ PostBody(ip, PostBodyOf(handleCall))
    /\ HandleResponse(FetchResponse(resp'))

\* the prompts typed in the runs that reach the endpoint
SubmitPrompts ==
    {<<>>, PromptValid, PromptOneWord, PromptScriptTag, PromptScriptCapitals}

\* page.tsx Home: the initial values of useState
PageInit ==
    /\ pagePrompt = <<>>
    /\ selectedPreset = Undefined
    /\ isGenerating = FALSE
    /\ pageError = ""
    /\ handleCall = NoHandle

-----------------------------------------------------------------------------
(* Claims about the mood *)

StrSad == <<115, 97, 100>>      \* "sad"

\* neither a mood name nor a synonym occurs in the prompt, capitals ignored
NothingMatches(text) ==
    /\ \A m \in Moods : ~Includes(ToLowerCase(text), MoodChars[m])
    /\ \A i \in 1..Len(MoodSynonyms) :
          \A w \in MoodSynonyms[i].words : ~Includes(ToLowerCase(text), w)

\* C10: for every prompt, the mood handleGenerate resolves is the selected
\* preset when one is selected, whatever mood name or synonym the prompt
\* holds; it is "serene" when no preset is selected and nothing in the prompt
\* matches; and it is always one of the five moods.
C10_MoodResolved ==
    isGenerating =>
        /\ handleCall.selectedPreset # Undefined
              => handleCall.mood = handleCall.selectedPreset
        /\ (handleCall.selectedPreset = Undefined /\ NothingMatches(handleCall.prompt))
              => handleCall.mood = "serene"
        /\ handleCall.mood \in Moods

\* the preset "joyful" is selected, the prompt holds "sad", and the mood is
\* resolved
C10_Witness ==
    /\ isGenerating
    /\ handleCall.selectedPreset = "joyful"
    /\ Includes(ToLowerCase(handleCall.prompt), StrSad)
    /\ handleCall.mood = "joyful"

\* C12: no POST whose prompt has fewer than 2 whitespace-delimited words is
\* accepted: it gets no success response and leaves the counter as it is.
C12_OneWordRejected ==
    [][ \A ip \in Ips, body \in Bodies :
          (SplitLength(Trim(body.prompt)) < MinWordsInPrompt /\ PostBody(ip, body))
              => (accepted' = accepted /\ counter' = counter /\ resp'.status # 200)
      ]_vars

\* the reason of the first check of validatePrompt an invalid prompt fails:
\* empty, too short, too long, suspicious content, not meaningful text
FirstFailedReason(text) ==
    IF Trim(text) = <<>> THEN ReasonEmpty
    ELSE IF Len(text) < MinPromptLength THEN ReasonShort
    ELSE IF Len(text) > MaxPromptLength THEN ReasonLong
    ELSE IF spamPatterns(text) THEN ReasonSuspicious
    ELSE ReasonMeaningless

\* C14: a POST that registers no generation is answered with an error that
\* names its reason: 429 with a retry-after value for the quota, 400 with the
\* reason of the first failed check for an invalid prompt, an error string in
\* every case; never a success and never an answer without a reason.
C14_RejectionHasReason ==
    [][ /\ rejected' # rejected =>
              /\ accepted' = accepted /\ counter' = counter /\ registry' = registry
              /\ resp'.kind = "POST"
              /\ resp'.status \in {400, 429, 500}
              /\ resp'.error # ""
              /\ resp'.generationNumber = 0
        /\ resp'.status = 200 /\ resp'.kind = "POST" => accepted' = accepted + 1
        /\ \A ip \in Ips :
              /\ (PostCheck(ip) /\ rejected' # rejected) =>
                    /\ resp'.status = 429
                    /\ resp'.retryAfter = RetryAfter
                    /\ resp'.message # ""
              /\ PostMalformed(ip) => (resp'.status = 500 /\ resp'.message # "")
              /\ \A body \in Bodies :
                    (PostBody(ip, body) /\ rejected' # rejected) =>
                        /\ resp'.status = 400
                        /\ resp'.retryAfter = 0
                        /\ (body.fingerprint # "" /\ body.promptHash # "" /\ body.prompt # <<>>) =>
                              /\ resp'.error = "Invalid prompt"
                              /\ resp'.message = FirstFailedReason(body.prompt)
      ]_vars

\* two POSTs were rejected, the last for a prompt longer than 500 characters
C14_Witness ==
    /\ rejected = 2
    /\ resp.status = 400
    /\ resp.error = "Invalid prompt"
    /\ resp.message = ReasonLong

\* C15: an accepted POST increments totalGenerated by exactly 1, sets
\* lastGeneration and appends exactly one record with the new number to the
\* registry; a POST that is rejected (429, 400) or fails (500), and every
\* other step, leaves totalGenerated, lastGeneration and the registry as
\* they are.
C15_CounterOncePerAccepted ==
    [][ /\ accepted' # accepted =>
              /\ accepted' = accepted + 1
              /\ resp'.status = 200
              /\ counter' = [counter EXCEPT !.totalGenerated = @ + 1, !.lastGeneration = now]
              /\ Len(registry') = Len(registry) + 1
              /\ SubSeq(registry', 1, Len(registry)) = registry
              /\ registry'[Len(registry')].generationNumber = counter'.totalGenerated
        /\ accepted' = accepted => (counter' = counter /\ registry' = registry)
        /\ (resp'.kind = "POST" /\ resp'.status \in {400, 429, 500}) =>
              /\ rejected' = rejected + 1
              /\ counter' = counter /\ registry' = registry
      ]_vars

\* the eleventh POST of a caller within one hour is answered 429 after ten
\* were accepted, and a clock step has passed
C15_Witness ==
    /\ resp.status = 429
    /\ now > 0
    /\ counter.totalGenerated = 10
    /\ counter.lastGeneration > 0
    /\ Len(registry) = 10

\* C16: a GET leaves the counter, the registry and every caller's rate limit
\* timestamps as they are and returns the current totalGenerated, the
\* lastGeneration of the counter (the timestamp of the last accepted
\* generation once there is one) and startedAt; startedAt never changes.
C16_GetReadOnly ==
    [][ /\ counter'.startedAt = counter.startedAt
        /\ resp'.kind = "GET" =>
              /\ counter' = counter
              /\ registry' = registry
              /\ recentGenerations' = recentGenerations
              /\ resp'.status = 200
              /\ resp'.totalGenerated = counter.totalGenerated
              /\ resp'.lastGeneration = counter.lastGeneration
              /\ resp'.startedAt = counter.startedAt
              /\ registry # <<>> =>
                    resp'.lastGeneration = registry[Len(registry)].timestamp
      ]_vars

\* a GET two clock steps after the start returns the two generations accepted
\* one clock step before
C16_Witness ==
    /\ resp.kind = "GET"
    /\ now = 2 * TickMs
    /\ resp.totalGenerated = 2
    /\ resp.lastGeneration = TickMs
    /\ resp.startedAt = 0
    /\ \A ip \in Ips : Len(recentGenerations[IpHashOf[ip]]) = 2

DayMs == 24 * HourMs
PerDay == 50                \* security.ts RATE_LIMITS.perIP.perDay
GlobalPerHour == 1000       \* security.ts RATE_LIMITS.global.perHour

\* the records registered in the `window` milliseconds up to record i
RecordsWithin(records, i, window) ==
    Cardinality({ j \in 1..Len(records) :
                    /\ records[j].timestamp > records[i].timestamp - window
                    /\ records[j].timestamp <= records[i].timestamp })

\* C17: no caller has more than 50 accepted generations in any 24 hours, and
\* no hour holds more than 1000 accepted generations of all callers.
C17_DailyAndGlobalLimits ==
    /\ \A ip \in Ips :
          \A i \in 1..Len(RegistryOf(ip)) :
              RecordsWithin(RegistryOf(ip), i, DayMs) <= PerDay
    /\ \A i \in 1..Len(registry) :
          RecordsWithin(registry, i, HourMs) <= GlobalPerHour

\* C18: no two records of the registry carry the same fingerprint: a POST
\* with the fingerprint of a registered generation gets no generation number.
C18_FingerprintsUnique ==
    \A i, j \in 1..Len(registry) :
        i # j => registry[i].fingerprint # registry[j].fingerprint

\* the tendril elements of a document
TendrilElements(doc) == Len(doc.back) + Len(doc.front) + Len(doc.highlights)

\* C19: for every seed and mood, generateParameters returns at least 60
\* tendrils (front, back and highlight together), and the HTML generated
\* from the parameters holds at least 60 tendril elements.
C19_SixtyTendrils ==
    params # NoParams =>
        /\ params.hair.frontTendrils + params.hair.backTendrils
              + params.hair.highlightTendrils >= 60
        /\ TendrilElements(generateHTML(params, <<>>)) >= 60

\* the fixed order of the moods
MoodOrder == <<"melancholic", "hopeful", "dramatic", "serene", "joyful">>

\* the name of the mood occurs in the prompt, capitals ignored
NameOccurs(text, mood) == Includes(ToLowerCase(text), MoodChars[mood])

\* a synonym of the mood occurs in the prompt, capitals ignored
SynonymOccurs(text, mood) ==
    \E i \in 1..Len(MoodSynonyms) :
        /\ MoodSynonyms[i].mood = mood
        /\ \E w \in MoodSynonyms[i].words : Includes(ToLowerCase(text), w)

\* C20: detectMood returns the first mood, in the order melancholic, hopeful,
\* dramatic, serene, joyful, whose name occurs in the prompt, whatever
\* synonyms occur; when no name occurs, the first mood in that order with a
\* synonym in the prompt; otherwise null, and handleGenerate then takes
\* "serene".  "serene portrait in blue tones" gives serene.
C20_MoodOrder ==
    /\ \A k \in 1..Len(MoodOrder) :
          /\ ( /\ NameOccurs(pagePrompt, MoodOrder[k])
               /\ \A j \in 1..(k - 1) : ~NameOccurs(pagePrompt, MoodOrder[j]) )
                => detectMood(pagePrompt) = MoodOrder[k]
          /\ ( /\ \A j \in 1..Len(MoodOrder) : ~NameOccurs(pagePrompt, MoodOrder[j])
               /\ SynonymOccurs(pagePrompt, MoodOrder[k])
               /\ \A j \in 1..(k - 1) : ~SynonymOccurs(pagePrompt, MoodOrder[j]) )
                => detectMood(pagePrompt) = MoodOrder[k]
    /\ NothingMatches(pagePrompt) => detectMood(pagePrompt) = Null
    /\ pagePrompt = PromptSereneBlue => detectMood(pagePrompt) = "serene"
    /\ (isGenerating /\ handleCall.selectedPreset = Undefined) =>
          handleCall.mood = IF detectMood(handleCall.prompt) = Null THEN "serene"
                            ELSE detectMood(handleCall.prompt)

\* "serene portrait in blue tones" is generated with no preset selected
C20_Witness ==
    /\ isGenerating
    /\ pagePrompt = PromptSereneBlue
    /\ handleCall.prompt = PromptSereneBlue
    /\ handleCall.selectedPreset = Undefined
    /\ handleCall.mood = "serene"

\* the letters of a prompt
AlphaCount(text) == Cardinality({ i \in 1..Len(text) : IsAlpha(text[i]) })

\* C13: validatePrompt rejects every prompt of length below 3 (as too short
\* unless it is blank) and every prompt of length above 500; it accepts a
\* prompt of length 3 with at least 2 words, at least 30% letters and no spam
\* pattern; and every prompt it accepts has 3 to 500 characters after
\* trimming.
C13_LengthBoundary ==
    validateRet # NoValidation =>
        /\ Len(validateArg) < MinPromptLength =>
              /\ ~validateRet.valid
              /\ Trim(validateArg) # <<>> => validateRet.reason = ReasonShort
        /\ Len(validateArg) > MaxPromptLength => ~validateRet.valid
        /\ ( /\ Len(validateArg) = MinPromptLength
             /\ SplitLength(Trim(validateArg)) >= MinWordsInPrompt
             /\ AlphaCount(validateArg) * 10 >= 3 * Len(validateArg)
             /\ ~spamPatterns(validateArg) ) => validateRet.valid
        /\ validateRet.valid =>
              /\ Len(Trim(validateArg)) >= MinPromptLength
              /\ Len(Trim(validateArg)) <= MaxPromptLength

\* "<script>" and 165 times "ab ": 503 characters
PromptScriptLong == PromptScript \o Repeat(<<97, 98, 32>>, 165)

\* prompts that contain "<script", in small and capital letters
ScriptPrompts == {PromptScript, PromptScriptTag, PromptScriptCapitals, PromptScriptLong}

\* C11: a prompt that contains "<script" (any letter case) is rejected by
\* validatePrompt whatever its length, and when it is submitted through
\* handleGenerate no generation is accepted for it and the counter stays.
C11_ScriptRejected ==
    /\ [](\A p \in ScriptPrompts :
            Includes(ToLowerCase(p), StrScript) /\ ~validatePrompt(p).valid)
    /\ [][ (handleCall # NoHandle /\ Includes(ToLowerCase(handleCall.prompt), StrScript))
              => (accepted' = accepted /\ counter' = counter /\ resp'.status # 200)
         ]_vars

\* C21: a POST of a caller with fewer than 10 accepted generations in the
\* trailing hour is not answered 429, whatever number of the caller's POSTs
\* was rejected before: rejected POSTs (429, 400) add nothing to the count the
\* rate limit check uses.
C21_RejectedConsumeNoQuota ==
    [][ \A ip \in Ips :
          (IsPostCheck(ip) /\ AcceptedInHour(ip) < RateLimit) => resp'.status # 429
      ]_vars

\* the records are the most recent min(n, cap) of n registrations: their
\* generation numbers are consecutive and end at total
HoldsMostRecent(records, n, cap, total) ==
    /\ Len(records) = Min({n, cap})
    /\ \A i \in 1..Len(records) :
          records[i].generationNumber = total - Len(records) + i

\* C22: once n incrementCounter calls have returned and none is under way,
\* the registry holds exactly the most recent min(n, cap) records, one for
\* each accepted generation, in acceptance order with consecutive generation
\* numbers that end at totalGenerated.
C22_RegistryHoldsRecent ==
    (Quiescent /\ Completed # {}) =>
        HoldsMostRecent(registryFile.data, Cardinality(Completed), RegistryFileCap,
                        counterFile.data.totalGenerated)

\* the hair containers of a document
HairZones == {"back", "front", "highlights"}

\* C23: a generated document references only class names its stylesheet
\* defines; every tendril element of the back, front and highlights
\* containers, at every index, has a per-tendril rule of its zone and index in
\* the stylesheet; and the number of tendril elements is frontTendrils +
\* backTendrils + highlightTendrils.
C23_HtmlMatchesCss ==
    \A c \in Renders :
        html[c] # NoDocument =>
            /\ HtmlClassNames \subseteq CssClassNames
            /\ \A zone \in HairZones :
                  \A i \in 1..Len(html[c][zone]) :
                      /\ html[c][zone][i] = <<"tendril", <<"tendril", i>>>>
                      /\ <<zone, i>> \in TendrilRuleSelectors(html[c].style)
            /\ TendrilElements(html[c])
                  = renderParams.hair.frontTendrils + renderParams.hair.backTendrils
                      + renderParams.hair.highlightTendrils

\* every numeric field of the record lies in its declared range and every
\* count is a natural number
InDeclaredRanges(P) ==
    /\ P.canvas.width > 0 /\ P.canvas.height > 0
    /\ InRange(P.head.top, 12, 16)
    /\ InRange(P.head.left, 27, 31)
    /\ InRange(P.head.rotation, 10, 25)
    /\ P.hair.frontTendrils \in 35..45
    /\ P.hair.backTendrils \in 20..30
    /\ P.hair.highlightTendrils \in 4..8
    /\ InRange(P.hair.curliness, 50, 100)
    /\ InRange(P.hair.flowAngle, -15, 15)
    /\ InRange(P.features.eyeSize, 90, 110)
    /\ InRange(P.features.noseSize, 95, 105)
    /\ InRange(P.features.lipFullness, 90, 120)
    /\ InRange(P.lighting.intensity, 60, 100)
    /\ InRange(P.lighting.angle, 0, 360)
    /\ P.lighting.shadowLayers \in 6..12
    /\ InRange(P.style.blur, 50, 250)

\* C24: the check made after construction fails for every record with a
\* numeric field outside its declared range or with a negative count: a
\* record that validateParameters lets through has every field in its range,
\* so that no other record reaches the renderer.
C24_CheckRejectsOutOfRange ==
    checkRet = <<TRUE>> => InDeclaredRanges(checkArg)

-----------------------------------------------------------------------------
(* The provenance system: ProvenanceRecord and UniquenessVerifier.  Texts    *)
(* are sequences of character codes.  SHA-256 is taken to be one-to-one: the *)
(* digest of a text is the text behind the code 0, which no text contains.   *)
(* A date text is the decimal digits of its milliseconds.                    *)

RECURSIVE Decimal(_)
\* the decimal digits of a natural number
Decimal(n) == IF n < 10 THEN <<48 + n>> ELSE Decimal(n \div 10) \o <<48 + (n % 10)>>

\* new Date().toISOString() at the instant ms
toISOString(ms) == Decimal(ms)

\* ProvenanceRecord.sha256
sha256(data) == <<0>> \o data

RECURSIVE Join(_, _)
\* Array.prototype.join
Join(components, separator) ==
    IF Len(components) = 0 THEN <<>>
    ELSE IF Len(components) = 1 THEN components[1]
    ELSE components[1] \o separator \o Join(Tail(components), separator)

StrAnonymous == <<97, 110, 111, 110, 121, 109, 111, 117, 115>>      \* "anonymous"
StrVersion == <<49, 46, 48, 46, 48>>                                \* "1.0.0"
StrAlice == <<97, 108, 105, 99, 101>>                               \* "alice"
StrEmptyObject == <<123, 125>>                                      \* "{}"

\* ProvenanceRecord.generateHashes; `parameters` is the text
\* JSON.stringify(this.parameters)
generateHashes(this) ==
    [promptHash |-> sha256(this.prompt),
     parametersHash |-> sha256(this.parameters),
     combinedHash |-> sha256(this.prompt \o this.parameters \o this.createdAt),
     creatorHash |-> sha256(this.creator \o this.createdAt)]

\* ProvenanceRecord.generateFingerprint
generateFingerprint(this, hashes) ==
    sha256(Join(<<hashes.promptHash, hashes.parametersHash, this.createdAt,
                  this.creator, this.generatorVersion>>, <<58, 58>>))

\* `new ProvenanceRecord(data)` at the instant ms; an absent creator or
\* generatorVersion is the empty text
ProvenanceRecord(data, ms) ==
    LET this == [createdAt |-> toISOString(ms),
                 prompt |-> data.prompt,
                 parameters |-> data.parameters,
                 creator |-> IF data.creator = <<>> THEN StrAnonymous
                             ELSE data.creator,
                 generatorVersion |-> IF data.generatorVersion = <<>> THEN StrVersion
                                      ELSE data.generatorVersion]
        hashes == generateHashes(this)
    IN  [createdAt |-> this.createdAt,
         prompt |-> this.prompt,
         parameters |-> this.parameters,
         creator |-> this.creator,
         generatorVersion |-> this.generatorVersion,
         hashes |-> hashes,
         fingerprint |-> generateFingerprint(this, hashes)]

\* Map.prototype.has, get and set; a map is the sequence of its entries in
\* insertion order
MapHas(map, key) == \E i \in 1..Len(map) : map[i].key = key
MapGet(map, key) == map[CHOOSE i \in 1..Len(map) : map[i].key = key].value
MapSet(map, key, value) ==
    IF MapHas(map, key)
    THEN [i \in 1..Len(map) |-> IF map[i].key = key THEN [key |-> key, value |-> value]
                                ELSE map[i]]
    ELSE Append(map, [key |-> key, value |-> value])

\* UniquenessVerifier.isUnique
isUnique(entries, fingerprint) == ~MapHas(entries, fingerprint)

\* UniquenessVerifier.generateTokenId: "CSS-" and the number that the first
\* 16 characters of the fingerprint spell
generateTokenId(fingerprint) ==
    <<67, 83, 83, 45>> \o SubSeq(fingerprint, 1, Min({16, Len(fingerprint)}))

\* a register that sets the entry without asking isUnique
registerOverwriting(entries, provenance, ms) ==
    [threw |-> FALSE,
     registry |-> MapSet(entries, provenance.fingerprint,
                         [provenance |-> provenance,
                          registeredAt |-> toISOString(ms),
                          tokenId |-> generateTokenId(provenance.fingerprint)])]

\* UniquenessVerifier.register at the instant ms: whether it threw, and the
\* registry it leaves
register(entries, provenance, ms) ==
    IF ~isUnique(entries, provenance.fingerprint)
    THEN [threw |-> TRUE, registry |-> entries]
    ELSE [threw |-> FALSE,
          registry |-> MapSet(entries, provenance.fingerprint,
                              [provenance |-> provenance,
                               registeredAt |-> toISOString(ms),
                               tokenId |-> generateTokenId(provenance.fingerprint)])]

ReasonNotFound == "Artwork not found in registry"
ReasonMismatch == "Fingerprint mismatch - data has been altered"

\* UniquenessVerifier.verify at the instant ms
verify(entries, fingerprint, providedData, ms) ==
    IF ~MapHas(entries, fingerprint)
    THEN [authentic |-> FALSE, reason |-> ReasonNotFound]
    ELSE IF ProvenanceRecord(providedData, ms).fingerprint # fingerprint
    THEN [authentic |-> FALSE, reason |-> ReasonMismatch]
    ELSE [authentic |-> TRUE, reason |-> ""]

\* the data records are built from and verified against
ArtworkData ==
    [prompt : {PromptValid, PromptSereneBlue},
     parameters : {StrEmptyObject},
     creator : {<<>>, StrAlice},
     generatorVersion : {<<>>}]

NoVerifierCall ==
    [op |-> "none", fingerprint |-> <<>>, data |-> CHOOSE d \in ArtworkData : TRUE,
     threw |-> FALSE, result |-> FALSE, reason |-> ""]

\* the fingerprints of the records built so far
KnownFingerprints == { provenances[i].fingerprint : i \in 1..Len(provenances) }

\* new ProvenanceRecord(data)
NewProvenanceRecord(data) ==
    /\ Len(provenances) < MaxProvenances
    /\ provenances' = Append(provenances, ProvenanceRecord(data, provNow))
    /\ verifierCall' = [NoVerifierCall EXCEPT !.op = "new", !.data = data]
    /\ UNCHANGED <<provNow, verifierRegistry>>

\* verifier.isUnique(fingerprint)
IsUnique(fingerprint) ==
    /\ verifierCall' = [NoVerifierCall EXCEPT !.op = "isUnique",
                                              !.fingerprint = fingerprint,
                                              !.result = isUnique(verifierRegistry, fingerprint)]
    /\ UNCHANGED <<provNow, provenances, verifierRegistry>>

\* verifier.register(provenance)
Register(provenance) ==
    /\ verifierRegistry' = register(verifierRegistry, provenance, provNow).registry
    /\ verifierCall' = [NoVerifierCall EXCEPT
                          !.op = "register",
                          !.fingerprint = provenance.fingerprint,
                          !.threw = register(verifierRegistry, provenance, provNow).threw]
    /\ UNCHANGED <<provNow, provenances>>

\* verifier.verify(fingerprint, data)
Verify(fingerprint, data) ==
    /\ verifierCall' = [NoVerifierCall EXCEPT
                          !.op = "verify",
                          !.fingerprint = fingerprint,
                          !.data = data,
                          !.result = verify(verifierRegistry, fingerprint, data, provNow).authentic,
                          !.reason = verify(verifierRegistry, fingerprint, data, provNow).reason]
    /\ UNCHANGED <<provNow, provenances, verifierRegistry>>

\* a millisecond passes
ProvTick ==
    /\ provNow < MaxProvTicks
    /\ provNow' = provNow + 1
    /\ verifierCall' = NoVerifierCall
    /\ UNCHANGED <<provenances, verifierRegistry>>

\* `new UniquenessVerifier()`
VerifierInit ==
    /\ provNow = 0
    /\ provenances = <<>>
    /\ verifierRegistry = <<>>
    /\ verifierCall = NoVerifierCall

-----------------------------------------------------------------------------
(* Claims about the provenance system *)

\* C25: a register call with a fingerprint that is registered throws and
\* leaves the registry unchanged, any other register call appends an entry
\* for its provenance; no entry is ever changed or removed, so that the
\* registry maps every fingerprint to the first provenance registered under
\* it; and isUnique(f) returns true exactly when no entry has fingerprint f.
C25_RegisterRejectsDuplicates ==
    /\ [](\A i, j \in 1..Len(verifierRegistry) :
            i # j => verifierRegistry[i].key # verifierRegistry[j].key)
    /\ [][ /\ \A i \in 1..Len(verifierRegistry) :
                 /\ i <= Len(verifierRegistry')
                 /\ verifierRegistry'[i] = verifierRegistry[i]
           /\ verifierCall'.op = "register" =>
                 IF MapHas(verifierRegistry, verifierCall'.fingerprint)
                 THEN verifierCall'.threw /\ verifierRegistry' = verifierRegistry
                 ELSE /\ ~verifierCall'.threw
                      /\ Len(verifierRegistry') = Len(verifierRegistry) + 1
                      /\ LET entry == verifierRegistry'[Len(verifierRegistry')]
                         IN  /\ entry.key = verifierCall'.fingerprint
                             /\ entry.value.provenance.fingerprint = entry.key
                             /\ entry.value.provenance \in Range(provenances)
           /\ verifierCall'.op = "isUnique" =>
                 (verifierCall'.result <=> ~MapHas(verifierRegistry, verifierCall'.fingerprint))
           /\ verifierCall'.op # "register" => verifierRegistry' = verifierRegistry
         ]_vars

\* a register call threw while two records are registered
C25_Witness ==
    /\ verifierCall.op = "register"
    /\ verifierCall.threw
    /\ Len(verifierRegistry) = 2
    /\ MapHas(verifierRegistry, verifierCall.fingerprint)

\* the record was built from the data
BuiltFrom(provenance, data) ==
    /\ provenance.prompt = data.prompt
    /\ provenance.parameters = data.parameters
    /\ provenance.creator = (IF data.creator = <<>> THEN StrAnonymous ELSE data.creator)
    /\ provenance.generatorVersion
          = (IF data.generatorVersion = <<>> THEN StrVersion ELSE data.generatorVersion)

\* C26: verify(fingerprint, data) returns authentic: true when the
\* fingerprint is registered for a record built from that data, whenever it
\* is called, and authentic: false when the fingerprint is not registered or
\* is registered for a record built from other data.
C26_VerifyAuthentic ==
    [][ verifierCall'.op = "verify" =>
          LET fingerprint == verifierCall'.fingerprint
              data == verifierCall'.data
          IN  IF ~MapHas(verifierRegistry, fingerprint)
              THEN ~verifierCall'.result
              ELSE verifierCall'.result
                      <=> BuiltFrom(MapGet(verifierRegistry, fingerprint).provenance, data)
      ]_vars

-----------------------------------------------------------------------------
(* random-generation-system.js: FairLaunchDrawing.  A conductDrawing call    *)
(* runs up to `await this.randomGenerator.generateRandomIntegers(...)` in    *)
(* one step and from the result of the request to its end in another;        *)
(* addEntry and createDrawing have no await inside.  An entry is the user    *)
(* it names; dates are left out.  Random.org returns integers within the     *)
(* bounds asked for, and a new serial number with every result.              *)

DrawingIds == 1..2              \* the ids crypto.randomBytes(16) returns in the model
Users == {"u1", "u2"}
Conducts == 1..MaxConducts

DefaultTotalEntries == 100      \* createDrawing: config.totalEntries || 100
DefaultWinnersCount == 1        \* createDrawing: config.winnersCount || 1

ErrorNotFound == "Drawing not found"
ErrorNotOpen == "Drawing is not open for entries"
ErrorFull == "Drawing is full"
ErrorConducted == "Drawing has already been conducted"
ErrorNoEntries == "No entries in drawing"
ErrorRandom == "Failed to generate true random numbers"

\* value || fallback for a number
OrDefault(value, fallback) == IF value = 0 THEN fallback ELSE value

NoCertificate == [totalEntries |-> 0, winnersCount |-> 0, winners |-> <<>>, serial |-> 0]

\* this.drawings.get(drawingId) for an id that is not a key
NoDrawing ==
    [exists |-> FALSE, totalEntries |-> 0, winnersCount |-> 0, entries |-> <<>>,
     winners |-> <<>>, status |-> "none", randomOrgSerial |-> 0,
     certificate |-> NoCertificate]

\* FairLaunchDrawing.createDrawing: the drawing it sets
createDrawing(config) ==
    [exists |-> TRUE,
     totalEntries |-> OrDefault(config.totalEntries, DefaultTotalEntries),
     winnersCount |-> OrDefault(config.winnersCount, DefaultWinnersCount),
     entries |-> <<>>,
     winners |-> <<>>,
     status |-> "open",
     randomOrgSerial |-> 0,
     certificate |-> NoCertificate]

\* an addEntry that does not look at the number of entries
addEntryUnbounded(drawing, entry) ==
    IF ~drawing.exists
    THEN [threw |-> TRUE, error |-> ErrorNotFound, drawing |-> drawing, returned |-> 0]
    ELSE IF drawing.status # "open"
    THEN [threw |-> TRUE, error |-> ErrorNotOpen, drawing |-> drawing, returned |-> 0]
    ELSE [threw |-> FALSE, error |-> "",
          drawing |-> [drawing EXCEPT !.entries = Append(@, entry)],
          returned |-> Len(drawing.entries) + 1]

\* FairLaunchDrawing.addEntry: whether it threw, the drawing it leaves and
\* the number it returned
addEntry(drawing, entry) ==
    IF ~drawing.exists
    THEN [threw |-> TRUE, error |-> ErrorNotFound, drawing |-> drawing, returned |-> 0]
    ELSE IF drawing.status # "open"
    THEN [threw |-> TRUE, error |-> ErrorNotOpen, drawing |-> drawing, returned |-> 0]
    ELSE IF Len(drawing.entries) >= drawing.totalEntries
    THEN [threw |-> TRUE, error |-> ErrorFull, drawing |-> drawing, returned |-> 0]
    ELSE [threw |-> FALSE, error |-> "",
          drawing |-> [drawing EXCEPT !.entries = Append(@, entry)],
          returned |-> Len(drawing.entries) + 1]

\* the first position of an entry in the entries (indexOf(w) + 1), 0 if none
EntryNumber(entries, w) ==
    IF \E i \in 1..Len(entries) : entries[i] = w
    THEN Min({ i \in 1..Len(entries) : entries[i] = w })
    ELSE 0

\* FairLaunchDrawing.generateDrawingCertificate: the values it prints
generateDrawingCertificate(drawing) ==
    [totalEntries |-> Len(drawing.entries),
     winnersCount |-> drawing.winnersCount,
     winners |-> [i \in 1..Len(drawing.winners) |->
                    <<drawing.winners[i], EntryNumber(drawing.entries, drawing.winners[i])>>],
     serial |-> drawing.randomOrgSerial]

\* FairLaunchDrawing.conductDrawing from the result of the request to its
\* end: the drawing it leaves
conductDrawingDraw(drawing, randomResult) ==
    LET winners == [i \in 1..Len(randomResult.randomData) |->
                      drawing.entries[randomResult.randomData[i] + 1]]
        drawn == [drawing EXCEPT !.winners = winners,
                                 !.status = "drawn",
                                 !.randomOrgSerial = randomResult.serialNumber]
    IN  [drawn EXCEPT !.certificate = generateDrawingCertificate(drawn)]

IdleConduct ==
    [pc |-> "idle", id |-> 1, count |-> 0, min |-> 0, max |-> 0, error |-> "",
     winners |-> <<>>, serialNumber |-> 0]

NoDrawCall == [op |-> "none", id |-> 1, entry |-> "", threw |-> FALSE, error |-> "",
               returned |-> 0]

\* the configurations drawings are created with; 0 is a field left out
DrawingConfigs == [totalEntries : {0, 2}, winnersCount : {0, 2}]

\* fairLaunch.createDrawing(config)
CreateDrawing(id, config) ==
    /\ ~drawings[id].exists
    /\ Cardinality({ i \in DrawingIds : drawings[i].exists }) < MaxDrawings
    /\ drawings' = [drawings EXCEPT ![id] = createDrawing(config)]
    /\ drawCall' = [NoDrawCall EXCEPT !.op = "createDrawing", !.id = id]
    /\ UNCHANGED <<conducts, randomSerial>>

\* fairLaunch.addEntry(id, entry)
AddEntry(id, entry) ==
    /\ addEntry(drawings[id], entry).threw \/ Len(drawings[id].entries) < MaxEntries
    /\ drawings' = [drawings EXCEPT ![id] = addEntry(drawings[id], entry).drawing]
    /\ drawCall' = [op |-> "addEntry", id |-> id, entry |-> entry,
                    threw |-> addEntry(drawings[id], entry).threw,
                    error |-> addEntry(drawings[id], entry).error,
                    returned |-> addEntry(drawings[id], entry).returned]
    /\ UNCHANGED <<conducts, randomSerial>>

\* fairLaunch.conductDrawing(id) is called: it throws, or runs into the await
\* of generateRandomIntegers(winnersCount, 0, entries.length - 1)
ConductDrawingCall(c, id) ==
    /\ conducts[c].pc = "idle"
    /\ conducts' = [conducts EXCEPT ![c] =
          IF ~drawings[id].exists
          THEN [IdleConduct EXCEPT !.pc = "threw", !.id = id, !.error = ErrorNotFound]
          ELSE IF drawings[id].status # "open"
          THEN [IdleConduct EXCEPT !.pc = "threw", !.id = id, !.error = ErrorConducted]
          ELSE IF Len(drawings[id].entries) = 0
          THEN [IdleConduct EXCEPT !.pc = "threw", !.id = id, !.error = ErrorNoEntries]
          ELSE [IdleConduct EXCEPT !.pc = "awaiting", !.id = id,
                                   !.count = drawings[id].winnersCount,
                                   !.min = 0,
                                   !.max = Len(drawings[id].entries) - 1]]
    /\ drawCall' = NoDrawCall
    /\ UNCHANGED <<drawings, randomSerial>>

\* the request of call c is answered: conductDrawing records the winners
\* and returns
ConductDrawingDraw(c) ==
    /\ conducts[c].pc = "awaiting"
    /\ \E randomData \in [1..conducts[c].count -> conducts[c].min..conducts[c].max] :
          LET randomResult == [randomData |-> randomData, serialNumber |-> randomSerial + 1]
              drawn == conductDrawingDraw(drawings[conducts[c].id], randomResult)
          IN  /\ drawings' = [drawings EXCEPT ![conducts[c].id] = drawn]
              /\ conducts' = [conducts EXCEPT ![c].pc = "done",
                                              ![c].winners = drawn.winners,
                                              ![c].serialNumber = randomResult.serialNumber]
    /\ randomSerial' = randomSerial + 1
    /\ drawCall' = NoDrawCall

\* the request of call c fails: generateRandomIntegers throws, and so does
\* conductDrawing
ConductDrawingFail(c) ==
    /\ conducts[c].pc = "awaiting"
    /\ conducts' = [conducts EXCEPT ![c].pc = "threw", ![c].error = ErrorRandom]
    /\ drawCall' = NoDrawCall
    /\ UNCHANGED <<drawings, randomSerial>>

\* `new FairLaunchDrawing(randomGenerator)`
DrawInit ==
    /\ drawings = [id \in DrawingIds |-> NoDrawing]
    /\ conducts = [c \in Conducts |-> IdleConduct]
    /\ randomSerial = 0
    /\ drawCall = NoDrawCall

-----------------------------------------------------------------------------
(* Claims about the drawings *)

\* C27: a drawing never holds more than totalEntries entries; an addEntry
\* call throws 'Drawing not found', 'Drawing is not open for entries' or
\* 'Drawing is full' and leaves the drawing as it is when the drawing does
\* not exist, is not open or is full, and appends its entry otherwise; and
\* every winner of a drawing is one of its entries.
C27_EntryRules ==
    /\ [](\A id \in DrawingIds :
            /\ Len(drawings[id].entries) <= drawings[id].totalEntries
            /\ \A i \in 1..Len(drawings[id].winners) :
                  drawings[id].winners[i] \in Range(drawings[id].entries))
    /\ [][ drawCall'.op = "addEntry" =>
             LET id == drawCall'.id
                 drawing == drawings[id]
             IN  IF ~drawing.exists
                 THEN /\ drawCall'.threw /\ drawCall'.error = ErrorNotFound
                      /\ drawings' = drawings
                 ELSE IF drawing.status # "open"
                 THEN /\ drawCall'.threw /\ drawCall'.error = ErrorNotOpen
                      /\ drawings' = drawings
                 ELSE IF Len(drawing.entries) >= drawing.totalEntries
                 THEN /\ drawCall'.threw /\ drawCall'.error = ErrorFull
                      /\ drawings' = drawings
                 ELSE /\ ~drawCall'.threw
                      /\ drawCall'.returned = Len(drawing.entries) + 1
                      /\ drawings' = [drawings EXCEPT
                                        ![id].entries = Append(@, drawCall'.entry)]
         ]_vars

\* an addEntry call threw 'Drawing is full' on a drawing of two entries
C27_Witness ==
    /\ drawCall.op = "addEntry"
    /\ drawCall.threw /\ drawCall.error = ErrorFull
    /\ Len(drawings[drawCall.id].entries) = 2
    /\ drawings[drawCall.id].totalEntries = 2

\* C28: once a drawing is 'drawn' its status, winners, serial number and
\* certificate never change; a conductDrawing call on a drawn drawing throws
\* 'Drawing has already been conducted'; at most one conductDrawing call on a
\* drawing returns winners, also when calls overlap at the await of the
\* random request or addEntry is called meanwhile; and a call whose random
\* request fails changes nothing of the drawing.
C28_ConductedOnce ==
    /\ [](\A c, d \in Conducts :
            (c # d /\ conducts[c].pc = "done" /\ conducts[d].pc = "done")
                => conducts[c].id # conducts[d].id)
    /\ [][ /\ \A id \in DrawingIds :
                 drawings[id].status = "drawn" =>
                     /\ drawings'[id].status = "drawn"
                     /\ drawings'[id].winners = drawings[id].winners
                     /\ drawings'[id].randomOrgSerial = drawings[id].randomOrgSerial
                     /\ drawings'[id].certificate = drawings[id].certificate
           /\ \A c \in Conducts :
                 /\ (conducts[c].pc = "idle" /\ conducts'[c].pc # "idle"
                        /\ drawings[conducts'[c].id].status = "drawn")
                       => (conducts'[c].pc = "threw" /\ conducts'[c].error = ErrorConducted)
                 /\ (conducts[c].pc = "awaiting" /\ conducts'[c].pc = "threw")
                       => drawings' = drawings
         ]_vars

\* the text holds no angle bracket, does not start or end with whitespace,
\* holds no whitespace but single spaces between other characters, and is at
\* most 500 characters long
IsNormalForm(text) ==
    /\ \A i \in 1..Len(text) : text[i] \notin {60, 62}
    /\ Len(text) > 0 => (~IsSpace(text[1]) /\ ~IsSpace(text[Len(text)]))
    /\ \A i \in 1..Len(text) :
          IsSpace(text[i]) => (text[i] = 32 /\ (i < Len(text) => ~IsSpace(text[i + 1])))
    /\ Len(text) <= MaxPromptLength

\* C29: what sanitizePrompt returns holds no '<' or '>', has no leading or
\* trailing whitespace, no whitespace other than single spaces, at most 500
\* characters, and sanitizePrompt returns it unchanged when called with it.
C29_SanitizeNormalForm ==
    sanitizeRet # <<>> =>
        /\ IsNormalForm(sanitizeRet[1])
        /\ sanitizePrompt(sanitizeRet[1]) = sanitizeRet[1]

-----------------------------------------------------------------------------
(* app/page.tsx: handleGenerate with the artwork panel it fills.  The panel  *)
(* shows the provenance, the generation number and the generated HTML; the   *)
(* HTML is the pair of what it embeds: the fingerprint of the provenance     *)
(* (embedProvenanceInCSS) and the generation number of its comment.          *)

NoProvenance == [promptHash |-> "", fingerprint |-> ""]
NoHTML == [fingerprint |-> "", generationNumber |-> 0]

\* page.tsx handleGenerate: const prov
ProvenanceOf(call) ==
    createProvenance(sanitizePrompt(call.prompt),
                     generateSeed(call.prompt, SeedTimestamp, SeedRandom),
                     ProvenanceTimestamp)

\* page.tsx handleGenerate: const html
HTMLOf(prov, number) == [fingerprint |-> prov.fingerprint, generationNumber |-> number]

\* the prompts typed in the runs that follow the panel
ShownPrompts == {PromptValid, PromptSereneBlue, PromptOneWord}

\* the answers of POST /api/generate: ok with a generation number, 429 and
\* 400 with their messages
ShownResponses ==
    { [ok |-> TRUE, message |-> "", generationNumber |-> n] : n \in 1..MaxShown }
        \cup { [ok |-> FALSE, message |-> m, generationNumber |-> 0] :
                  m \in {"Maximum 10 generations per hour. Please try again later.",
                         ReasonSuspicious} }

\* page.tsx handleGenerate, from the click to `await fetch`, with
\* setProvenance(prov)
ShowGenerate ==
    /\ HandleGenerate
    /\ shownProvenance' = IF handleCall' # NoHandle THEN ProvenanceOf(handleCall')
                          ELSE shownProvenance
    /\ UNCHANGED <<generationNumber, generatedHTML>>

\* page.tsx handleGenerate, from the response of fetch to the end, with
\* setGenerationNumber and setGeneratedHTML
ShowResponse(response) ==
    /\ HandleResponse([ok |-> response.ok, message |-> response.message])
    /\ IF response.ok
       THEN /\ generationNumber' = response.generationNumber
            /\ generatedHTML' = HTMLOf(ProvenanceOf(handleCall), response.generationNumber)
       ELSE UNCHANGED <<generationNumber, generatedHTML>>
    /\ UNCHANGED shownProvenance

\* page.tsx handleGenerate, from the rejection of fetch to the end
ShowRejection(message) ==
    /\ HandleRejection(message)
    /\ UNCHANGED shownVars

\* page.tsx Home: the initial values of useState
ShownInit ==
    /\ shownProvenance = NoProvenance
    /\ generationNumber = 0
    /\ generatedHTML = NoHTML

\* C30: once an attempt of handleGenerate has finished, isGenerating is false
\* and the panel shows the provenance, the number and the HTML of one
\* accepted generation, or none of the three: after a rejected request or a
\* failed fetch the panel is as before the attempt, or empty.
C30_PanelConsistent ==
    handleCall = NoHandle =>
        /\ ~isGenerating
        /\ \/ /\ shownProvenance = NoProvenance
              /\ generationNumber = 0
              /\ generatedHTML = NoHTML
           \/ /\ shownProvenance # NoProvenance
              /\ generationNumber # 0
              /\ generatedHTML = HTMLOf(shownProvenance, generationNumber)

-----------------------------------------------------------------------------
(* Specifications *)

\* what a step of the endpoint leaves alone
ApiFrame == UNCHANGED <<fileVars, renderVars, randomVars, pageVars, validateVars, checkVars, verifierVars, drawVars, sanitizeVars, shownVars>>

\* what a step of the file-backed counter leaves alone
FileFrame == UNCHANGED <<apiVars, renderVars, randomVars, pageVars, validateVars, checkVars, verifierVars, drawVars, sanitizeVars, shownVars>>

\* the endpoint
Init == ApiInit /\ FileIdle /\ RenderIdle /\ RandomIdle /\ PageInit /\ ValidateIdle /\ CheckIdle /\ VerifierInit /\ DrawInit /\ SanitizeIdle /\ ShownInit

Next ==
    \/ \E ip \in Ips : PostCheck(ip) /\ ApiFrame
    \/ \E ip \in Ips, body \in Bodies : PostBody(ip, body) /\ ApiFrame
    \/ \E ip \in Ips : PostMalformed(ip) /\ ApiFrame
    \/ Get /\ ApiFrame
    \/ Tick /\ ApiFrame

Spec == Init /\ [][Next]_vars

\* the endpoint when request bodies arrive without delay
NextNoDelay ==
    \/ \E ip \in Ips : PostCheck(ip) /\ ApiFrame
    \/ \E ip \in Ips, body \in Bodies : PostBody(ip, body) /\ ApiFrame
    \/ \E ip \in Ips : PostMalformed(ip) /\ ApiFrame
    \/ Get /\ ApiFrame
    \/ TickIdle /\ ApiFrame

SpecNoDelay == Init /\ [][NextNoDelay]_vars

\* concurrent calls of the file-backed incrementCounter
InitFile == ApiInit /\ FileInit /\ RenderIdle /\ RandomIdle /\ PageInit /\ ValidateIdle /\ CheckIdle /\ VerifierInit /\ DrawInit /\ SanitizeIdle /\ ShownInit

NextFile ==
    \/ \E p \in Calls, ip \in Ips : IncrementCounterCall(p, ip) /\ FileFrame
    \/ \E p \in Calls : InitializeStorageWriteCounter(p) /\ FileFrame
    \/ \E p \in Calls : InitializeStorageWriteRegistry(p) /\ FileFrame
    \/ \E p \in Calls : InitializeStorageReturn(p) /\ FileFrame
    \/ \E p \in Calls : ReadCounter(p) /\ FileFrame
    \/ \E p \in Calls : WriteCounter(p) /\ FileFrame
    \/ \E p \in Calls : ReadRegistry(p) /\ FileFrame
    \/ \E p \in Calls : WriteRegistry(p) /\ FileFrame

SpecFile == InitFile /\ [][NextFile]_vars

\* two renderings of one parameter record
RenderFrame == UNCHANGED <<apiVars, fileVars, randomVars, pageVars, validateVars, checkVars, verifierVars, drawVars, sanitizeVars, shownVars>>

InitRender == ApiInit /\ FileIdle /\ RenderInit /\ RandomIdle /\ PageInit /\ ValidateIdle /\ CheckIdle /\ VerifierInit /\ DrawInit /\ SanitizeIdle /\ ShownInit

NextRender ==
    \/ \E c \in Renders : GenerateCSS(c) /\ RenderFrame
    \/ \E c, d \in Renders : GenerateHTML(c, d) /\ RenderFrame

SpecRender == InitRender /\ [][NextRender]_vars

\* SeededRandom instances built from one seed, and generateParameters
RandomFrame == UNCHANGED <<apiVars, fileVars, renderVars, pageVars, validateVars, checkVars, verifierVars, drawVars, sanitizeVars, shownVars>>

InitRandom == ApiInit /\ FileIdle /\ RenderIdle /\ RandomInit /\ PageInit /\ ValidateIdle /\ CheckIdle /\ VerifierInit /\ DrawInit /\ SanitizeIdle /\ ShownInit

NextRandom ==
    \/ \E i \in Instances : CallNext(i) /\ RandomFrame
    \/ \E i \in Instances : CallNextInt(i) /\ RandomFrame
    \/ \E i \in Instances : CallPick(i) /\ RandomFrame

SpecRandom == InitRandom /\ [][NextRandom]_vars

\* generateParameters for one seed string and every mood
InitParameters == ApiInit /\ FileIdle /\ RenderIdle /\ ParametersInit /\ PageInit /\ ValidateIdle /\ CheckIdle /\ VerifierInit /\ DrawInit /\ SanitizeIdle /\ ShownInit

NextParameters ==
    \E mood \in Moods \cup {Undefined} : GenerateParameters(mood) /\ RandomFrame

SpecParameters == InitParameters /\ [][NextParameters]_vars

\* the page: the visitor types, selects presets and generates
PageFrame == UNCHANGED <<apiVars, fileVars, renderVars, randomVars, validateVars, checkVars, verifierVars, drawVars, sanitizeVars, shownVars>>

NextPage ==
    \/ \E text \in PagePrompts : SetPrompt(text) /\ PageFrame
    \/ \E preset \in Moods : SelectPreset(preset) /\ PageFrame
    \/ HandleGenerate /\ PageFrame
    \/ \E response \in FetchResponses : HandleResponse(response) /\ PageFrame
    \/ \E message \in FetchErrors : HandleRejection(message) /\ PageFrame

SpecPage == Init /\ [][NextPage]_vars

\* the page and the endpoint: the visitor types and generates, the POST of
\* handleGenerate is served by route.ts
SubmitFrame == UNCHANGED <<fileVars, renderVars, randomVars, validateVars, checkVars, verifierVars, drawVars, sanitizeVars, shownVars>>

NextSubmit ==
    \/ \E text \in SubmitPrompts : SetPrompt(text) /\ PageFrame
    \/ accepted + rejected < MaxSubmits /\ HandleGenerate /\ PageFrame
    \/ \E ip \in Ips : SubmitCheck(ip) /\ SubmitFrame
    \/ \E ip \in Ips : SubmitBody(ip) /\ SubmitFrame

SpecSubmit == Init /\ [][NextSubmit]_vars

\* validatePrompt called with one prompt
ValidateFrame == UNCHANGED <<apiVars, fileVars, renderVars, randomVars, pageVars, checkVars, verifierVars, drawVars, sanitizeVars, shownVars>>

InitValidate == ApiInit /\ FileIdle /\ RenderIdle /\ RandomIdle /\ PageInit /\ ValidateInit /\ CheckIdle /\ VerifierInit /\ DrawInit /\ SanitizeIdle /\ ShownInit

NextValidate == ValidatePrompt /\ ValidateFrame

SpecValidate == InitValidate /\ [][NextValidate]_vars

\* the endpoint over a day: a caller that generates until it is told to
\* wait, then comes back 80 minutes later
NextDay ==
    \/ \E ip \in Ips : PostNow(ip, BodyOk) /\ ApiFrame
    \/ Get /\ ApiFrame
    \/ TickDay /\ ApiFrame

SpecDay == Init /\ [][NextDay]_vars

\* validateParameters called with one record
CheckFrame == UNCHANGED <<apiVars, fileVars, renderVars, randomVars, pageVars, validateVars, verifierVars, drawVars, sanitizeVars, shownVars>>

InitCheck == ApiInit /\ FileIdle /\ RenderIdle /\ RandomIdle /\ PageInit /\ ValidateIdle /\ CheckInit /\ VerifierInit /\ DrawInit /\ SanitizeIdle /\ ShownInit

NextCheck == ValidateParameters /\ CheckFrame

SpecCheck == InitCheck /\ [][NextCheck]_vars

\* records are built, registered and verified while the clock advances
VerifierFrame == UNCHANGED <<apiVars, fileVars, renderVars, randomVars, pageVars, validateVars, checkVars, drawVars, sanitizeVars, shownVars>>

InitVerifier == ApiInit /\ FileIdle /\ RenderIdle /\ RandomIdle /\ PageInit /\ ValidateIdle /\ CheckIdle /\ VerifierInit /\ DrawInit /\ SanitizeIdle /\ ShownInit

NextVerifier ==
    \/ \E data \in ArtworkData : NewProvenanceRecord(data) /\ VerifierFrame
    \/ \E fingerprint \in KnownFingerprints : IsUnique(fingerprint) /\ VerifierFrame
    \/ \E provenance \in Range(provenances) : Register(provenance) /\ VerifierFrame
    \/ \E fingerprint \in KnownFingerprints, data \in ArtworkData :
          Verify(fingerprint, data) /\ VerifierFrame
    \/ ProvTick /\ VerifierFrame

SpecVerifier == InitVerifier /\ [][NextVerifier]_vars

\* a drawing is created, entered and conducted by overlapping calls
DrawFrame == UNCHANGED <<apiVars, fileVars, renderVars, randomVars, pageVars, validateVars, checkVars, verifierVars, sanitizeVars, shownVars>>

InitDraw == ApiInit /\ FileIdle /\ RenderIdle /\ RandomIdle /\ PageInit /\ ValidateIdle /\ CheckIdle /\ VerifierInit /\ DrawInit /\ SanitizeIdle /\ ShownInit

NextDraw ==
    \/ \E id \in DrawingIds, config \in DrawingConfigs : CreateDrawing(id, config) /\ DrawFrame
    \/ \E id \in DrawingIds, entry \in Users : AddEntry(id, entry) /\ DrawFrame
    \/ \E c \in Conducts, id \in DrawingIds : ConductDrawingCall(c, id) /\ DrawFrame
    \/ \E c \in Conducts : ConductDrawingDraw(c) /\ DrawFrame
    \/ \E c \in Conducts : ConductDrawingFail(c) /\ DrawFrame

SpecDraw == InitDraw /\ [][NextDraw]_vars

\* sanitizePrompt called with one prompt
SanitizeFrame == UNCHANGED <<apiVars, fileVars, renderVars, randomVars, pageVars, validateVars, checkVars, verifierVars, drawVars, shownVars>>

InitSanitize == ApiInit /\ FileIdle /\ RenderIdle /\ RandomIdle /\ PageInit /\ ValidateIdle /\ CheckIdle /\ VerifierInit /\ DrawInit /\ SanitizeInit /\ ShownInit

NextSanitize == SanitizePrompt /\ SanitizeFrame

SpecSanitize == InitSanitize /\ [][NextSanitize]_vars

\* the page with its artwork panel: the visitor types and generates, the
\* endpoint answers
ShownFrame == UNCHANGED <<apiVars, fileVars, renderVars, randomVars, validateVars, checkVars, verifierVars, drawVars, sanitizeVars>>

NextShown ==
    \/ \E text \in ShownPrompts : SetPrompt(text) /\ UNCHANGED shownVars /\ ShownFrame
    \/ ShowGenerate /\ ShownFrame
    \/ \E response \in ShownResponses : ShowResponse(response) /\ ShownFrame
    \/ \E message \in FetchErrors : ShowRejection(message) /\ ShownFrame

SpecShown == Init /\ [][NextShown]_vars

=============================================================================
